---------------------------- MODULE Spec2Model ----------------------------
(***************************************************************************)
(* Model of the Gmail command-line script: the MIME envelope builder       *)
(* (createRawMessage), the send / draft operations that read attachment    *)
(* files concurrently before assembling, the base64 / base64url encoders   *)
(* they use, and the Markdown to email-HTML renderer                       *)
(* (markdownToEmailHtml).                                                  *)
(*                                                                         *)
(* A JavaScript string is a sequence of characters; a character is a       *)
(* one-character TLA+ string ("U+00E9" and "U+FFFD" stand for the two      *)
(* non-ASCII characters the model uses).  A Buffer is a sequence of bytes  *)
(* 0..255.                                                                 *)
(***************************************************************************)
EXTENDS Integers, Sequences, FiniteSets, TLC

VARIABLES
    command,      \* args[0]: "send" or "draft"
    flags,        \* parseArgs' flags: to, subject, body, html, attachment, inline
    pc,           \* where the run of main is
    attachmentPaths,   \* sendMessage's attachmentPaths
    inlineImagePaths,  \* sendMessage's inlineImagePaths: records path, cid
    batch,        \* which Promise.all is awaited: "none", "attachments", "inline"
    pending,      \* indices of the batch whose fs.readFile has not completed
    loaded,       \* index -> Attachment, for the completed reads of the batch
    readErrors,   \* the paths whose fs.readFile failed, in order of failure
    completed,    \* the reads that succeeded, <<batch, index>>, in order of completion
    attachments,  \* sendMessage's local attachments (<<>> while undefined)
    inlineImages, \* sendMessage's local inlineImages (<<>> while undefined)
    ts,           \* Date.now() as read by createRawMessage, in decimal
    raw,          \* createRawMessage's result
    providerCalls,\* the calls made to the Gmail API, in order
    stdout,       \* the results printed by output()
    exitCode,     \* process exit code, -1 while running
    encPc,        \* encoder specifications: position ("input", "encoded", "decoded", "wrapped")
    encMsg,       \* the assembled message handed to the final encoder
    encRaw,       \* createRawMessage's return value for encMsg
    encBack,      \* decodeBase64Url(encRaw)
    encContent,   \* an attachment's bytes (Attachment.content)
    encPart,      \* that attachment's encoded part body (base64Content)
    mdPc,         \* markdownToEmailHtml: the pass that runs next
    mdInput,      \* markdownToEmailHtml's md
    mdStyle,      \* markdownToEmailHtml's style: "client" or "labs"
    mdHtml,       \* markdownToEmailHtml's local html
    mdTitle,      \* markdownToEmailHtml's local title
    tplPc,        \* applyTemplate: "input" before the call, "applied" after it
    templateStyle,\* send-md's templateStyle: "client" or "labs"
    finalSubject, \* send-md's finalSubject, the title given to applyTemplate
    contentHtml,  \* send-md's contentHtml, the content given to applyTemplate
    finalHtml,    \* send-md's finalHtml, the result of applyTemplate
    argv,         \* process.argv.slice(2)
    tokenLoads,   \* the number of calls of loadToken
    fileReads,    \* the paths main itself has given to fs.readFile (send-md)
    markdown,     \* send-md's markdown (<<>> until the file is read)
    tokPc,        \* loadToken: where it is
    credentialsFile, \* the credentials file: "absent", "broken" or "valid"
    projectToken, \* the project-local token file: "absent", "broken" or "valid"
    globalToken,  \* the legacy global token file: "absent", "broken" or "valid"
    accessed,     \* the paths findTokenPath has given to fs.access, in order
    tokenPath,    \* the value findTokenPath returned last: a path, or Null (<<>> before)
    oauth2Client, \* the client loadToken has built: the file its refresh_token came from (<<>> while none)
    authPc,       \* performAuth: where it is
    promise,      \* the callback promise: "pending", "resolved" or "rejected"
    settled,      \* the calls of resolve / reject that took place, in order
    timer,        \* the 5-minute timer: "off", "armed" or "fired"
    server,       \* the callback server: "off", "listening" or "closed"
    events,       \* the callback requests received and the expiry of the timer, in order
    gitignore,    \* the project's .gitignore: "absent", "without" or "with" the token pattern
    tokens,       \* the refresh_token of the tokens getToken delivered (<<>> before)
    exchanged,    \* the codes given to oauth2Client.getToken, in order
    tokenFile     \* the token data written to the token file, in order

mainVars == <<command, flags, pc, attachmentPaths, inlineImagePaths,
              batch, pending, loaded, readErrors, completed, attachments,
              inlineImages, ts, raw, providerCalls, stdout, exitCode>>

encVars == <<encPc, encMsg, encRaw, encBack, encContent, encPart>>

mdVars == <<mdPc, mdInput, mdStyle, mdHtml, mdTitle>>

tplVars == <<tplPc, templateStyle, finalSubject, contentHtml, finalHtml>>

cliVars == <<argv, tokenLoads, fileReads, markdown>>

tokVars == <<tokPc, credentialsFile, projectToken, globalToken, accessed, tokenPath,
             oauth2Client>>

authVars == <<authPc, promise, settled, timer, server, events, gitignore, tokens,
              exchanged, tokenFile>>

vars == <<mainVars, encVars, mdVars, tplVars, cliVars, tokVars, authVars>>

---------------------------------------------------------------------------
(* Strings *)

\* the characters of a string literal
Chars(s) == [i \in 1..Len(s) |-> SubSeq(s, i, i)]

\* JavaScript undefined / null where a string is expected: a value that is
\* no string (its one element is not a character)
Undefined == <<"undefined">>

\* a value interpolated in a template literal
Str(x) == IF x = Undefined THEN Chars("undefined") ELSE x

\* Array.prototype.filter(Boolean) on an array of strings and nulls: drops
\* null and the empty string
FilterBoolean(arr) == SelectSeq(arr, LAMBDA x : x # Undefined /\ x # <<>>)

RECURSIVE Concat(_)
\* concatenation of a sequence of strings
Concat(ss) == IF ss = <<>> THEN <<>> ELSE Head(ss) \o Concat(Tail(ss))

RECURSIVE Join(_, _)
\* Array.prototype.join
Join(ss, sep) ==
    IF ss = <<>> THEN <<>>
    ELSE IF Len(ss) = 1 THEN Head(ss)
    ELSE Head(ss) \o sep \o Join(Tail(ss), sep)

\* s has p at position i
MatchAt(s, p, i) ==
    /\ i >= 1
    /\ i + Len(p) - 1 <= Len(s)
    /\ \A j \in 1..Len(p) : s[i + j - 1] = p[j]

\* the positions at which p occurs in s
Occurrences(s, p) == {i \in 1..Len(s) : MatchAt(s, p, i)}

Count(s, p) == Cardinality(Occurrences(s, p))

Contains(s, p) == \E i \in 1..Len(s) : MatchAt(s, p, i)

---------------------------------------------------------------------------
(* Character codes and UTF-8 (Buffer.from(string), buf.toString("utf-8")) *)

\* the character U+0060
Backtick == SubSeq("`'", 1, 1)

Ascii == <<
    " ", "!", "\"", "#", "$", "%", "&", "'", "(", ")", "*", "+", ",", "-",
    ".", "/", "0", "1", "2", "3", "4", "5", "6", "7", "8", "9", ":", ";",
    "<", "=", ">", "?", "@", "A", "B", "C", "D", "E", "F", "G", "H", "I",
    "J", "K", "L", "M", "N", "O", "P", "Q", "R", "S", "T", "U", "V", "W",
    "X", "Y", "Z", "[", "\\", "]", "^", "_", Backtick, "a", "b", "c", "d", "e",
    "f", "g", "h", "i", "j", "k", "l", "m", "n", "o", "p", "q", "r", "s",
    "t", "u", "v", "w", "x", "y", "z", "{", "|", "}", "~" >>

AsciiCode == [c \in {Ascii[i] : i \in 1..Len(Ascii)} |->
                 31 + (CHOOSE i \in 1..Len(Ascii) : Ascii[i] = c)]

CodePoint(c) ==
    IF c = "\n" THEN 10
    ELSE IF c = "\r" THEN 13
    ELSE IF c = "\t" THEN 9
    ELSE IF c = "U+00E9" THEN 233
    ELSE IF c = "U+FFFD" THEN 65533
    ELSE AsciiCode[c]

CharOf(cp) ==
    IF cp = 10 THEN "\n"
    ELSE IF cp = 13 THEN "\r"
    ELSE IF cp = 9 THEN "\t"
    ELSE IF cp = 233 THEN "U+00E9"
    ELSE IF cp >= 32 /\ cp <= 126 THEN Ascii[cp - 31]
    ELSE "U+FFFD"

\* the UTF-8 bytes of one character
Utf8Char(c) ==
    LET cp == CodePoint(c) IN
    IF cp < 128 THEN <<cp>>
    ELSE IF cp < 2048 THEN <<192 + (cp \div 64), 128 + (cp % 64)>>
    ELSE <<224 + (cp \div 4096), 128 + ((cp \div 64) % 64), 128 + (cp % 64)>>

\* a byte slot / a character slot that holds nothing
NoByte == -1
NoChar == ""

\* Buffer.from(message): the UTF-8 encoding of a string (three slots per
\* character, the unused ones dropped)
BufferFrom(s) ==
    SelectSeq([k \in 1..(3 * Len(s)) |->
                LET u == Utf8Char(s[((k - 1) \div 3) + 1])
                    j == ((k - 1) % 3) + 1
                IN IF j <= Len(u) THEN u[j] ELSE NoByte],
              LAMBDA x : x # NoByte)

IsCont(b) == b >= 128 /\ b < 192

\* byte i starts a well-formed two-byte / three-byte sequence
Lead2(b, i) ==
    i >= 1 /\ i + 1 <= Len(b) /\ b[i] >= 192 /\ b[i] < 224 /\ IsCont(b[i + 1])
Lead3(b, i) ==
    /\ i >= 1 /\ i + 2 <= Len(b) /\ b[i] >= 224 /\ b[i] < 240
    /\ IsCont(b[i + 1]) /\ IsCont(b[i + 2])

\* what buf.toString("utf-8") produces at byte i: the character that starts
\* there, nothing for a byte consumed by the sequence before it, U+FFFD for
\* a byte that belongs to no well-formed sequence
Utf8At(b, i) ==
    IF b[i] < 128 THEN CharOf(b[i])
    ELSE IF Lead2(b, i) THEN CharOf((b[i] - 192) * 64 + (b[i + 1] - 128))
    ELSE IF Lead3(b, i)
        THEN CharOf((b[i] - 224) * 4096 + (b[i + 1] - 128) * 64 + (b[i + 2] - 128))
    ELSE IF IsCont(b[i]) /\ (Lead2(b, i - 1) \/ Lead3(b, i - 1) \/ Lead3(b, i - 2))
        THEN NoChar
    ELSE "U+FFFD"

BufferToString(b) ==
    SelectSeq([i \in 1..Len(b) |-> Utf8At(b, i)], LAMBDA x : x # NoChar)

---------------------------------------------------------------------------
(* base64 (buf.toString("base64"), Buffer.from(text, "base64")) *)

B64Alphabet == Chars("ABCDEFGHIJKLMNOPQRSTUVWXYZabcdefghijklmnopqrstuvwxyz0123456789+/")

B64Index == [c \in {B64Alphabet[i] : i \in 1..64} |->
                (CHOOSE i \in 1..64 : B64Alphabet[i] = c) - 1]

ByteAt(b, i) == IF i <= Len(b) THEN b[i] ELSE 0

\* the k-th character (k from 0) of the base64 text of b
B64CharAt(b, k) ==
    LET g  == k \div 4
        b0 == ByteAt(b, 3 * g + 1)
        b1 == ByteAt(b, 3 * g + 2)
        b2 == ByteAt(b, 3 * g + 3)
    IN CASE k % 4 = 0 -> B64Alphabet[(b0 \div 4) + 1]
         [] k % 4 = 1 -> B64Alphabet[((b0 % 4) * 16 + (b1 \div 16)) + 1]
         [] k % 4 = 2 -> IF 3 * g + 2 > Len(b) THEN "="
                         ELSE B64Alphabet[((b1 % 16) * 4 + (b2 \div 64)) + 1]
         [] k % 4 = 3 -> IF 3 * g + 3 > Len(b) THEN "="
                         ELSE B64Alphabet[(b2 % 64) + 1]

\* buf.toString("base64"): padded standard base64
ToBase64(b) == [k \in 1..(4 * ((Len(b) + 2) \div 3)) |-> B64CharAt(b, k - 1)]

\* String.prototype.replace(/x/g, y) for a one-character pattern
ReplaceChar(s, x, y) == [i \in 1..Len(s) |-> IF s[i] = x THEN y ELSE s[i]]

\* String.prototype.replace(/x$/, ""): one trailing x only
StripTrailing_One(s, x) ==
    IF s # <<>> /\ s[Len(s)] = x THEN SubSeq(s, 1, Len(s) - 1) ELSE s

RECURSIVE StripTrailing(_, _)
\* String.prototype.replace(/x+$/, "")
StripTrailing(s, x) ==
    IF s # <<>> /\ s[Len(s)] = x THEN StripTrailing(SubSeq(s, 1, Len(s) - 1), x)
    ELSE s

\* createRawMessage's return expression
ToBase64Url(b) ==
    StripTrailing(ReplaceChar(ReplaceChar(ToBase64(b), "+", "-"), "/", "_"), "=")

\* the characters Buffer.from(text, "base64") decodes: it reads up to the
\* first "=" and skips every character outside both base64 alphabets
B64Value(c) ==
    IF c = "-" THEN 62 ELSE IF c = "_" THEN 63 ELSE B64Index[c]

IsB64Char(c) == c \in DOMAIN B64Index \/ c = "-" \/ c = "_"

B64Payload(t) ==
    LET stop == IF \E i \in 1..Len(t) : t[i] = "="
                  THEN CHOOSE i \in 1..Len(t) :
                           t[i] = "=" /\ \A j \in 1..(i - 1) : t[j] # "="
                  ELSE Len(t) + 1
        kept == SelectSeq(SubSeq(t, 1, stop - 1), IsB64Char)
    IN [i \in 1..Len(kept) |-> B64Value(kept[i])]

\* Buffer.from(text, "base64"): 4 characters give 3 bytes, a last group of
\* 3 gives 2 bytes, of 2 gives 1 byte, a single left-over character none
FromBase64(t) ==
    LET v == B64Payload(t)
        n == Len(v)
        r == n % 4
        nbytes == 3 * (n \div 4) + (IF r = 3 THEN 2 ELSE IF r = 2 THEN 1 ELSE 0)
        ByteOf(j) ==
            LET g == (j - 1) \div 3
                p == (j - 1) % 3
            IN CASE p = 0 -> v[4 * g + 1] * 4 + (v[4 * g + 2] \div 16)
                 [] p = 1 -> (v[4 * g + 2] % 16) * 16 + (v[4 * g + 3] \div 4)
                 [] p = 2 -> (v[4 * g + 3] % 4) * 64 + v[4 * g + 4]
    IN [j \in 1..nbytes |-> ByteOf(j)]

decodeBase64Url(data) ==
    LET base64 == ReplaceChar(ReplaceChar(data, "-", "+"), "_", "/")
    IN BufferToString(FromBase64(base64))

---------------------------------------------------------------------------
(* Encoded part bodies *)

nl == <<"\r", "\n">>

WrapLen == 76

\* String.prototype.match(/.{1,76}/) without the g flag: the first chunk only
MatchChunks_FirstOnly(s) ==
    [k \in 1..(IF Len(s) > 0 THEN 1 ELSE 0) |->
        SubSeq(s, 1, IF WrapLen < Len(s) THEN WrapLen ELSE Len(s))]

\* String.prototype.match(/.{1,76}/g): the successive greedy chunks, or null
\* (here the empty sequence) when nothing matches
MatchChunks(s) ==
    [k \in 1..((Len(s) + WrapLen - 1) \div WrapLen) |->
        SubSeq(s, WrapLen * (k - 1) + 1,
               IF WrapLen * k < Len(s) THEN WrapLen * k ELSE Len(s))]

\* content.toString("base64").match(/.{1,76}/g)?.join(nl) || ""
base64Content(content) ==
    LET m == MatchChunks(ToBase64(content))
    IN IF m = <<>> THEN <<>> ELSE Join(m, nl)

---------------------------------------------------------------------------
(* createRawMessage *)

\* the top-level header lines; from is never passed by the callers
Headers(to, from, subject, contentType) ==
    Join(FilterBoolean(<<
        Chars("MIME-Version: 1.0"),
        Chars("To: ") \o Str(to),
        IF from # Undefined /\ from # <<>> THEN Chars("From: ") \o Str(from) ELSE Undefined,
        Chars("Subject: ") \o Str(subject),
        contentType >>), nl)

mixedBoundary(stamp) == Chars("____mixed_") \o stamp \o Chars("____")
altBoundary(stamp) == Chars("____alt_") \o stamp \o Chars("____")
relatedBoundary(stamp) == Chars("____related_") \o stamp \o Chars("____")

Dashes == Chars("--")

MultipartType(kind, boundary) ==
    Chars("Content-Type: multipart/") \o Chars(kind) \o Chars("; boundary=\"")
        \o boundary \o Chars("\"")

\* the text part is written twice
textPart_Twice(boundary, body) ==
    Join(<< Dashes \o boundary,
            Chars("Content-Type: text/plain; charset=\"UTF-8\""),
            <<>>,
            Str(body),
            Dashes \o boundary,
            Chars("Content-Type: text/plain; charset=\"UTF-8\""),
            <<>>,
            Str(body) >>, nl)

textPart(boundary, body) ==
    Join(<< Dashes \o boundary,
            Chars("Content-Type: text/plain; charset=\"UTF-8\""),
            <<>>,
            Str(body) >>, nl)

\* the closing delimiter is written before the part
htmlPart_AfterClosing(boundary, html) ==
    Join(<< Dashes \o boundary \o Dashes,
            Dashes \o boundary,
            Chars("Content-Type: text/html; charset=\"UTF-8\""),
            <<>>,
            Str(html) >>, nl)

htmlPart(boundary, html) ==
    Join(<< Dashes \o boundary,
            Chars("Content-Type: text/html; charset=\"UTF-8\""),
            <<>>,
            Str(html) >>, nl)

\* the Content-ID is taken from the file name
inlinePart_FilenameAsId(boundary, img) ==
    Join(<< Dashes \o boundary,
            Chars("Content-Type: ") \o img.mimeType \o Chars("; name=\"")
                \o img.filename \o Chars("\""),
            Chars("Content-Transfer-Encoding: base64"),
            Chars("Content-Disposition: inline; filename=\"") \o img.filename
                \o Chars("\""),
            Chars("Content-ID: <") \o img.filename \o Chars(">"),
            <<>>,
            base64Content(img.content) >>, nl)

inlinePart(boundary, img) ==
    Join(<< Dashes \o boundary,
            Chars("Content-Type: ") \o img.mimeType \o Chars("; name=\"")
                \o img.filename \o Chars("\""),
            Chars("Content-Transfer-Encoding: base64"),
            Chars("Content-Disposition: inline; filename=\"") \o img.filename
                \o Chars("\""),
            Chars("Content-ID: <") \o Str(img.contentId) \o Chars(">"),
            <<>>,
            base64Content(img.content) >>, nl)

attachmentPart(boundary, att) ==
    Join(<< Dashes \o boundary,
            Chars("Content-Type: ") \o att.mimeType \o Chars("; name=\"")
                \o att.filename \o Chars("\""),
            Chars("Content-Disposition: attachment; filename=\"") \o att.filename
                \o Chars("\""),
            Chars("Content-Transfer-Encoding: base64"),
            <<>>,
            base64Content(att.content) >>, nl)

inlineParts(boundary, imgs) ==
    Join([i \in 1..Len(imgs) |-> inlinePart(boundary, imgs[i])], nl)

\* only the first attachment gets a part
attachmentParts_FirstOnly(boundary, atts) ==
    attachmentPart(boundary, atts[1])

attachmentParts(boundary, atts) ==
    Join([i \in 1..Len(atts) |-> attachmentPart(boundary, atts[i])], nl)

\* an absent (undefined) list is the empty sequence
hasItems(list) == Len(list) > 0

\* !!html
hasHtmlOf(html) == html # Undefined /\ html # <<>>

\* createRawMessage testing the HTML-with-inline-images branch before the
\* attachment branches
ShapeOf_InlineFirst(html, atts, imgs) ==
    LET hasAttachments == hasItems(atts)
        hasInlineImages == hasItems(imgs)
        hasHtml == hasHtmlOf(html)
    IN IF hasHtml /\ hasInlineImages /\ ~hasAttachments THEN 4
       ELSE IF hasAttachments /\ hasHtml THEN 2
       ELSE IF hasAttachments THEN 3
       ELSE IF hasHtml THEN 5
       ELSE 6

\* the number of the branch createRawMessage takes, in source order
ShapeOf(html, atts, imgs) ==
    LET hasAttachments == hasItems(atts)
        hasInlineImages == hasItems(imgs)
        hasHtml == hasHtmlOf(html)
    IN IF hasAttachments /\ hasHtml /\ hasInlineImages THEN 1
       ELSE IF hasAttachments /\ hasHtml THEN 2
       ELSE IF hasAttachments THEN 3
       ELSE IF hasHtml /\ hasInlineImages THEN 4
       ELSE IF hasHtml THEN 5
       ELSE 6

\* the local variable `message` of createRawMessage
Message(to, subject, body, from, html, atts, imgs, stamp) ==
    LET mixed == mixedBoundary(stamp)
        alt == altBoundary(stamp)
        related == relatedBoundary(stamp)
        shape == ShapeOf(html, atts, imgs)
    IN CASE shape = 1 ->
            LET headers == Headers(to, from, subject, MultipartType("mixed", mixed))
                relatedHeader == Join(<< Dashes \o mixed,
                                         MultipartType("related", related) >>, nl)
            IN headers \o nl \o nl \o relatedHeader \o nl \o nl
                \o htmlPart(related, html) \o nl
                \o inlineParts(related, imgs) \o nl
                \o Dashes \o related \o Dashes \o nl
                \o attachmentParts(mixed, atts) \o nl
                \o Dashes \o mixed \o Dashes
         [] shape = 2 ->
            LET headers == Headers(to, from, subject, MultipartType("mixed", mixed))
                altHeader == Join(<< Dashes \o mixed,
                                     MultipartType("alternative", alt) >>, nl)
            IN headers \o nl \o nl \o altHeader \o nl \o nl
                \o textPart(alt, body) \o nl
                \o htmlPart(alt, html) \o nl
                \o Dashes \o alt \o Dashes \o nl
                \o attachmentParts(mixed, atts) \o nl
                \o Dashes \o mixed \o Dashes
         [] shape = 3 ->
            LET headers == Headers(to, from, subject, MultipartType("mixed", mixed))
            IN headers \o nl \o nl
                \o textPart(mixed, body) \o nl
                \o attachmentParts(mixed, atts) \o nl
                \o Dashes \o mixed \o Dashes
         [] shape = 4 ->
            LET headers == Headers(to, from, subject, MultipartType("related", related))
            IN headers \o nl \o nl
                \o htmlPart(related, html) \o nl
                \o inlineParts(related, imgs) \o nl
                \o Dashes \o related \o Dashes
         [] shape = 5 ->
            LET headers == Headers(to, from, subject, MultipartType("alternative", alt))
            IN headers \o nl \o nl
                \o textPart(alt, body) \o nl
                \o htmlPart(alt, html) \o nl
                \o Dashes \o alt \o Dashes
         [] OTHER ->
            Join(FilterBoolean(<<
                Chars("MIME-Version: 1.0"),
                Chars("To: ") \o Str(to),
                IF from # Undefined /\ from # <<>>
                    THEN Chars("From: ") \o Str(from) ELSE Undefined,
                Chars("Subject: ") \o Str(subject),
                Chars("Content-Type: text/plain; charset=\"UTF-8\""),
                <<>>,
                body >>), nl)

createRawMessage(to, subject, body, from, html, atts, imgs, stamp) ==
    ToBase64Url(BufferFrom(
        Message(to, subject, body, from, html, atts, imgs, stamp)))

---------------------------------------------------------------------------
(* String helpers of the CLI *)

IsSpace(c) == c \in {" ", "\t", "\n", "\r"}

RECURSIVE TrimStart(_)
TrimStart(s) == IF s # <<>> /\ IsSpace(Head(s)) THEN TrimStart(Tail(s)) ELSE s

RECURSIVE TrimEnd(_)
TrimEnd(s) ==
    IF s # <<>> /\ IsSpace(s[Len(s)]) THEN TrimEnd(SubSeq(s, 1, Len(s) - 1)) ELSE s

\* String.prototype.trim
Trim(s) == TrimEnd(TrimStart(s))

\* the positions of s that satisfy Test, in increasing order
Positions(s, Test(_)) == SelectSeq([i \in 1..Len(s) |-> i], Test)

\* String.prototype.split with a one-character separator
Split(s, sep) ==
    LET at == Positions(s, LAMBDA i : s[i] = sep)
        From(k) == IF k = 1 THEN 1 ELSE at[k - 1] + 1
        To(k) == IF k = Len(at) + 1 THEN Len(s) ELSE at[k] - 1
    IN [k \in 1..(Len(at) + 1) |-> SubSeq(s, From(k), To(k))]

\* the largest position of character c in s, 0 when absent
LastIndexOf(s, c) ==
    IF \E i \in 1..Len(s) : s[i] = c
        THEN CHOOSE i \in 1..Len(s) : s[i] = c /\ \A j \in (i + 1)..Len(s) : s[j] # c
        ELSE 0

\* path.basename
Basename(filePath) == SubSeq(filePath, LastIndexOf(filePath, "/") + 1, Len(filePath))

\* path.extname: from the last "." of the basename, "" when there is none or
\* when the basename starts with its only "."
Extname(filePath) ==
    LET base == Basename(filePath)
        dot == LastIndexOf(base, ".")
    IN IF dot <= 1 THEN <<>> ELSE SubSeq(base, dot, Len(base))

UpperLetters == Chars("ABCDEFGHIJKLMNOPQRSTUVWXYZ")
LowerLetters == Chars("abcdefghijklmnopqrstuvwxyz")

LowerChar(c) ==
    IF \E i \in 1..26 : UpperLetters[i] = c
        THEN LowerLetters[CHOOSE i \in 1..26 : UpperLetters[i] = c]
        ELSE c

\* String.prototype.toLowerCase
ToLowerCase(s) == [i \in 1..Len(s) |-> LowerChar(s[i])]

mimeTypes == <<
    <<".pdf", "application/pdf">>,
    <<".doc", "application/msword">>,
    <<".docx", "application/vnd.openxmlformats-officedocument.wordprocessingml.document">>,
    <<".xls", "application/vnd.ms-excel">>,
    <<".xlsx", "application/vnd.openxmlformats-officedocument.spreadsheetml.sheet">>,
    <<".png", "image/png">>,
    <<".jpg", "image/jpeg">>,
    <<".jpeg", "image/jpeg">>,
    <<".gif", "image/gif">>,
    <<".txt", "text/plain">>,
    <<".html", "text/html">>,
    <<".csv", "text/csv">>,
    <<".json", "application/json">>,
    <<".zip", "application/zip">> >>

getMimeType_CaseSensitive(filePath) ==
    LET ext == Extname(filePath)
    IN IF \E i \in 1..Len(mimeTypes) : Chars(mimeTypes[i][1]) = ext
        THEN Chars(mimeTypes[CHOOSE i \in 1..Len(mimeTypes) : Chars(mimeTypes[i][1]) = ext][2])
        ELSE Chars("application/octet-stream")

getMimeType(filePath) ==
    LET ext == ToLowerCase(Extname(filePath))
    IN IF \E i \in 1..Len(mimeTypes) : Chars(mimeTypes[i][1]) = ext
        THEN Chars(mimeTypes[CHOOSE i \in 1..Len(mimeTypes) : Chars(mimeTypes[i][1]) = ext][2])
        ELSE Chars("application/octet-stream")

\* loadAttachment, once fs.readFile has delivered content
loadAttachment(filePath, content) ==
    [filename |-> Basename(filePath), content |-> content,
     mimeType |-> getMimeType(filePath), isInline |-> FALSE, contentId |-> Undefined]

\* loadInlineImage, once fs.readFile has delivered content
loadInlineImage(filePath, contentId, content) ==
    [filename |-> Basename(filePath), content |-> content,
     mimeType |-> getMimeType(filePath), isInline |-> TRUE, contentId |-> contentId]

\* attachment ? attachment.split(",").map(p => p.trim()) : undefined
ParseAttachmentFlag(attachment) ==
    IF attachment = Undefined THEN <<>>
    ELSE LET parts == Split(attachment, ",")
         IN [i \in 1..Len(parts) |-> Trim(parts[i])]

\* the --inline parsing of main: each item is split on ":" and its first two
\* pieces are the path and the content id
ParseInlineFlag(inlineFlag) ==
    IF inlineFlag = Undefined THEN <<>>
    ELSE LET items == Split(inlineFlag, ",")
             Piece(item, k) ==
                 LET f == Split(Trim(item), ":")
                 IN IF k <= Len(f) THEN f[k] ELSE Undefined
         IN [i \in 1..Len(items) |->
                [path |-> Piece(items[i], 1), cid |-> Piece(items[i], 2)]]

---------------------------------------------------------------------------
(* The inputs of a run *)

MaxFiles == 2
MaxMsgLen == 3
MaxContentLen == 120
MaxMdBlocks == 3

SeqsUpTo(S, n) == UNION {[1..k -> S] : k \in 0..n}

Timestamps == {Chars("1700000000000"), Chars("1700000000001")}

ToFlags == {Undefined, Chars("a@b.c")}
SubjectFlags == {Undefined, Chars("Hi")}
BodyFlags == {Undefined, Chars("hi"),
              Chars("see --____alt_1700000000000____-- and ____mixed_1700000000000____")}
HtmlFlags == {Undefined, Chars("<b>hi</b>"),
              Chars("<i>--____related_1700000000000____</i>")}

AttachmentFiles == {Chars("a.pdf"), Chars(" docs/notes.TXT")}
InlineItems == {Chars("logo.png:logo"), Chars("pic.jpg")}

\* a flag holding a comma-separated list of 1..MaxFiles items, or no flag
ListFlags(items) ==
    {Undefined} \cup {Join(q, <<",">>) : q \in SeqsUpTo(items, MaxFiles) \ {<<>>}}

\* what fs.readFile delivers for a readable path
FileBytes(filePath) ==
    CASE filePath = Chars("a.pdf") -> <<37, 80, 68, 70, 62>>
      [] filePath = Chars("docs/notes.TXT") -> <<>>
      [] filePath = Chars("logo.png") -> <<137, 80, 78, 71>>
      [] OTHER -> <<255, 216, 255>>

---------------------------------------------------------------------------
(* The send and draft commands of main *)

EncIdle ==
    /\ encPc = "off" /\ encMsg = <<>> /\ encRaw = <<>> /\ encBack = <<>>
    /\ encContent = <<>> /\ encPart = <<>>

MdIdle ==
    /\ mdPc = "off" /\ mdInput = <<>> /\ mdStyle = "client" /\ mdHtml = <<>>
    /\ mdTitle = <<>>

TplIdle ==
    /\ tplPc = "off" /\ templateStyle = "client" /\ finalSubject = <<>>
    /\ contentHtml = <<>> /\ finalHtml = <<>>

CliIdle ==
    /\ argv = <<>> /\ tokenLoads = 0 /\ fileReads = <<>> /\ markdown = <<>>

TokIdle ==
    /\ tokPc = "off" /\ credentialsFile = "valid" /\ projectToken = "absent"
    /\ globalToken = "absent" /\ accessed = <<>> /\ tokenPath = <<>>
    /\ oauth2Client = <<>>

AuthIdle ==
    /\ authPc = "off" /\ promise = "pending" /\ settled = <<>> /\ timer = "off"
    /\ server = "off" /\ events = <<>> /\ exchanged = <<>> /\ tokenFile = <<>>
    /\ gitignore = "absent" /\ tokens = <<>>

Init ==
    /\ command \in {"send", "draft"}
    /\ flags \in [to : ToFlags, subject : SubjectFlags, body : BodyFlags,
                  html : HtmlFlags, attachment : ListFlags(AttachmentFiles),
                  inline : ListFlags(InlineItems)]
    /\ pc = "main"
    /\ attachmentPaths = <<>>
    /\ inlineImagePaths = <<>>
    /\ batch = "none"
    /\ pending = {}
    /\ loaded = <<>>
    /\ readErrors = <<>>
    /\ completed = <<>>
    /\ attachments = <<>>
    /\ inlineImages = <<>>
    /\ ts = <<>>
    /\ raw = <<>>
    /\ providerCalls = <<>>
    /\ stdout = <<>>
    /\ exitCode = -1
    /\ CliIdle
    /\ TokIdle
    /\ AuthIdle
    /\ EncIdle
    /\ MdIdle
    /\ TplIdle

\* fail(error): print the failure result and process.exit(1)
Fail(error) ==
    /\ stdout' = Append(stdout, [success |-> FALSE, error |-> error])
    /\ exitCode' = 1
    /\ pc' = "exited"

\* !to || !subject || !body
MissingRequired ==
    flags.to = Undefined \/ flags.subject = Undefined \/ flags.body = Undefined

\* main, cases "send" and "draft", up to `await getGmailClient()`
Main ==
    /\ pc = "main"
    /\ command \in {"send", "draft"}
    /\ IF MissingRequired
        THEN Fail([kind |-> "usage", path |-> <<>>])
        ELSE /\ pc' = "getGmailClient"
             /\ UNCHANGED <<stdout, exitCode>>
    /\ UNCHANGED <<command, flags, attachmentPaths, inlineImagePaths,
                   batch, pending, loaded, readErrors, completed, attachments, inlineImages,
                   ts, raw, providerCalls, encVars, mdVars, tplVars, cliVars, tokVars, authVars>>

\* sendMessage / createDraft from createRawMessage on: assemble, then call the
\* provider and await it
Assemble(atts, imgs) ==
    \E now \in Timestamps :
        /\ ts' = now
        /\ raw' = createRawMessage(flags.to, flags.subject, flags.body, Undefined,
                                   flags.html, atts, imgs, now)
        /\ providerCalls' = Append(providerCalls,
              [api |-> IF command = "send" THEN "messages.send" ELSE "drafts.create",
               raw |-> raw'])
        /\ attachments' = atts
        /\ inlineImages' = imgs
        /\ pc' = "awaitProvider"

\* sendMessage / createDraft from the inline-image `if` on; rest are the
\* reads still in flight
ReadInlineOrAssemble(atts, imagePaths, rest) ==
    IF Len(imagePaths) > 0
        THEN /\ batch' = "inline"
             /\ pending' = 1..Len(imagePaths)
             /\ loaded' = <<>>
             /\ attachments' = atts
             /\ pc' = "awaitReads"
             /\ UNCHANGED <<inlineImages, ts, raw, providerCalls>>
        ELSE /\ Assemble(atts, <<>>)
             /\ pending' = rest
             /\ loaded' = <<>>
             /\ UNCHANGED batch

\* the attachment reads are issued but not awaited
ReadAttachmentsOrGoOn_NoAwait(paths, imagePaths) ==
    ReadInlineOrAssemble(<<>>, imagePaths, 1..Len(paths))

\* sendMessage / createDraft from its first line on: Promise.all over the
\* attachment reads is awaited before anything else happens
ReadAttachmentsOrGoOn(paths, imagePaths) ==
    IF Len(paths) > 0
        THEN /\ batch' = "attachments"
             /\ pending' = 1..Len(paths)
             /\ loaded' = <<>>
             /\ pc' = "awaitReads"
             /\ UNCHANGED <<attachments, inlineImages, ts, raw, providerCalls>>
        ELSE ReadInlineOrAssemble(<<>>, imagePaths, {})

\* getGmailClient rejects (loadToken throws): main's catch calls fail
GetGmailClientError ==
    /\ pc = "getGmailClient"
    /\ tokenLoads' = tokenLoads + 1
    /\ Fail([kind |-> "auth", path |-> <<>>])
    /\ UNCHANGED <<command, flags, attachmentPaths, inlineImagePaths, batch,
                   pending, loaded, readErrors, completed, attachments, inlineImages, ts, raw,
                   providerCalls, encVars, mdVars, tplVars, argv, fileReads,
                   markdown, tokVars, authVars>>

\* getGmailClient resolves: main parses the list flags and calls sendMessage /
\* createDraft, which runs up to its first await
GetGmailClient ==
    /\ pc = "getGmailClient"
    /\ command \in {"send", "draft"}
    /\ tokenLoads' = tokenLoads + 1
    /\ attachmentPaths' = ParseAttachmentFlag(flags.attachment)
    /\ inlineImagePaths' = ParseInlineFlag(flags.inline)
    /\ ReadAttachmentsOrGoOn(attachmentPaths', inlineImagePaths')
    /\ UNCHANGED <<command, flags, readErrors, completed, stdout, exitCode, encVars, mdVars,
                   tplVars, argv, fileReads, markdown, tokVars, authVars>>

\* the values in the order in which the reads completed
AsArray_ByCompletion(f, n) ==
    [k \in 1..n |-> f[completed'[Len(completed') - n + k][2]]]

\* index -> value as an array in index order
AsArray(f, n) == [i \in 1..n |-> f[i]]

\* the path read by entry i of the awaited batch
ReadPath(i) ==
    IF batch = "attachments" THEN attachmentPaths[i] ELSE inlineImagePaths[i].path

\* the fs.readFile of entry i of the awaited batch succeeds; when it was the
\* last one Promise.all fulfils and the function goes on
ReadOk(i) ==
    /\ pc = "awaitReads"
    /\ i \in pending
    /\ completed' = Append(completed, <<batch, i>>)
    /\ LET item == IF batch = "attachments"
                     THEN loadAttachment(ReadPath(i), FileBytes(ReadPath(i)))
                     ELSE loadInlineImage(ReadPath(i), inlineImagePaths[i].cid,
                                          FileBytes(ReadPath(i)))
           done == [j \in (DOMAIN loaded) \cup {i} |->
                       IF j = i THEN item ELSE loaded[j]]
       IN IF pending = {i}
            THEN IF batch = "attachments"
                   THEN ReadInlineOrAssemble(AsArray(done, Len(attachmentPaths)),
                                             inlineImagePaths, {})
                   ELSE /\ Assemble(attachments, AsArray(done, Len(inlineImagePaths)))
                        /\ pending' = {}
                        /\ loaded' = <<>>
                        /\ UNCHANGED batch
            ELSE /\ pending' = pending \ {i}
                 /\ loaded' = done
                 /\ UNCHANGED <<batch, pc, attachments, inlineImages, ts, raw,
                                providerCalls>>
    /\ UNCHANGED <<command, flags, attachmentPaths, inlineImagePaths, readErrors,
                   stdout, exitCode, encVars, mdVars, tplVars, cliVars, tokVars, authVars>>

\* a failed read is noted but the batch goes on as if the file were empty
ReadError_Tolerated(i) ==
    /\ pc = "awaitReads"
    /\ i \in pending
    /\ pending # {i}
    /\ readErrors' = Append(readErrors, ReadPath(i))
    /\ pending' = pending \ {i}
    /\ loaded' = [j \in (DOMAIN loaded) \cup {i} |->
                     IF j # i THEN loaded[j]
                     ELSE IF batch = "attachments"
                         THEN loadAttachment(ReadPath(i), <<>>)
                         ELSE loadInlineImage(ReadPath(i), inlineImagePaths[i].cid, <<>>)]
    /\ UNCHANGED <<command, flags, attachmentPaths, inlineImagePaths, batch, pc,
                   completed, attachments, inlineImages, ts, raw, providerCalls, stdout,
                   exitCode, encVars, mdVars, tplVars, cliVars, tokVars, authVars>>

\* the fs.readFile of entry i fails: Promise.all rejects, sendMessage /
\* createDraft rejects, main's catch calls fail
ReadError(i) ==
    /\ pc = "awaitReads"
    /\ i \in pending
    /\ readErrors' = Append(readErrors, ReadPath(i))
    /\ Fail([kind |-> "ENOENT", path |-> ReadPath(i)])
    /\ pending' = pending \ {i}
    /\ UNCHANGED <<command, flags, attachmentPaths, inlineImagePaths,
                   batch, loaded, completed, attachments, inlineImages, ts, raw,
                   providerCalls, encVars, mdVars, tplVars, cliVars, tokVars, authVars>>

\* the provider call resolves: main prints the success result
ProviderOk ==
    /\ pc = "awaitProvider"
    /\ stdout' = Append(stdout, [success |-> TRUE,
                                 data |-> providerCalls[Len(providerCalls)].api])
    /\ pc' = "done"
    /\ exitCode' = 0
    /\ UNCHANGED <<command, flags, attachmentPaths, inlineImagePaths,
                   batch, pending, loaded, readErrors, completed, attachments, inlineImages,
                   ts, raw, providerCalls, encVars, mdVars, tplVars, cliVars, tokVars, authVars>>

\* the provider call rejects: main's catch calls fail
ProviderError ==
    /\ pc = "awaitProvider"
    /\ Fail([kind |-> "provider", path |-> <<>>])
    /\ UNCHANGED <<command, flags, attachmentPaths, inlineImagePaths,
                   batch, pending, loaded, readErrors, completed, attachments, inlineImages,
                   ts, raw, providerCalls, encVars, mdVars, tplVars, cliVars, tokVars, authVars>>

Next ==
    \/ Main
    \/ GetGmailClient
    \/ GetGmailClientError
    \/ \E i \in 1..(MaxFiles + 1) : ReadOk(i)
    \/ \E i \in 1..(MaxFiles + 1) : ReadError(i)
    \/ ProviderOk
    \/ ProviderError

Spec == Init /\ [][Next]_vars

---------------------------------------------------------------------------
(* What a recipient sees: the decoded message and its lines *)

\* the raw payload as the provider decodes it
Decoded == decodeBase64Url(raw)

\* the lines of a text, split at CRLF
LinesOf(s) ==
    LET at == Positions(s, LAMBDA i : i < Len(s) /\ s[i] = "\r" /\ s[i + 1] = "\n")
        From(k) == IF k = 1 THEN 1 ELSE at[k - 1] + 2
        To(k) == IF k = Len(at) + 1 THEN Len(s) ELSE at[k] - 1
    IN [k \in 1..(Len(at) + 1) |-> SubSeq(s, From(k), To(k))]

StartsWith(s, p) == MatchAt(s, p, 1)

\* createRawMessage has run and its result is awaited at the provider
Assembled == pc = "awaitProvider"

\* the inputs of the assembled message, as the callers name them
HasAttachmentsIn == Len(attachmentPaths) > 0
HasInlineIn == Len(inlineImagePaths) > 0
HasHtmlIn == flags.html # Undefined /\ flags.html # <<>>

\* the shape a reader finds in a message: the top-level Content-Type (the
\* fourth header line) and, under multipart/mixed, the type of the first part
SeenShape(msg) ==
    LET L == LinesOf(msg)
        Is(k, t) == k <= Len(L) /\ StartsWith(L[k], Chars("Content-Type: ") \o Chars(t))
    IN IF Is(4, "multipart/mixed; boundary=")
         THEN IF Is(7, "multipart/related; boundary=") THEN 1
              ELSE IF Is(7, "multipart/alternative; boundary=") THEN 2
              ELSE IF Is(7, "text/plain;") THEN 3
              ELSE 0
       ELSE IF Is(4, "multipart/related; boundary=") THEN 4
       ELSE IF Is(4, "multipart/alternative; boundary=") THEN 5
       ELSE IF Is(4, "text/plain;") /\ Count(msg, Chars("multipart/")) = 0 THEN 6
       ELSE 0

\* the precedence table of the six shapes: attachments, HTML, inline images
ShapeTable(a, h, i) ==
    CASE a /\ h /\ i -> 1
      [] a /\ h /\ ~i -> 2
      [] a /\ ~h -> 3
      [] ~a /\ h /\ i -> 4
      [] ~a /\ h /\ ~i -> 5
      [] ~a /\ ~h -> 6

\* C1: whatever combination of attachments, HTML and inline images is
\* present, the assembled message has exactly the shape the precedence table
\* gives for it (1 mixed over related, 2 mixed over alternative, 3 mixed with
\* a text part, 4 related, 5 alternative, 6 a single text/plain part)
C1_ShapeByPrecedence ==
    Assembled => SeenShape(Decoded) = ShapeTable(HasAttachmentsIn, HasHtmlIn, HasInlineIn)

\* attachments and inline images are present but no HTML: the message is
\* multipart/mixed with a text part (shape 3)
C1_Witness ==
    /\ Assembled
    /\ HasAttachmentsIn /\ HasInlineIn /\ ~HasHtmlIn
    /\ SeenShape(Decoded) = 3

\* the boundaries a shape uses, each with the number of parts it delimits
UsedBoundaries(shape) ==
    LET nAtt == Len(attachmentPaths)
        nInl == Len(inlineImagePaths)
    IN CASE shape = 1 -> {[b |-> mixedBoundary(ts), parts |-> 1 + nAtt],
                          [b |-> relatedBoundary(ts), parts |-> 1 + nInl]}
         [] shape = 2 -> {[b |-> mixedBoundary(ts), parts |-> 1 + nAtt],
                          [b |-> altBoundary(ts), parts |-> 2]}
         [] shape = 3 -> {[b |-> mixedBoundary(ts), parts |-> 1 + nAtt]}
         [] shape = 4 -> {[b |-> relatedBoundary(ts), parts |-> 1 + nInl]}
         [] shape = 5 -> {[b |-> altBoundary(ts), parts |-> 2]}
         [] OTHER -> {}

InputShape == ShapeTable(HasAttachmentsIn, HasHtmlIn, HasInlineIn)

\* the caller's texts a shape copies into the message
BodyIncluded(shape) == shape \in {2, 3, 5, 6}
HtmlIncluded(shape) == shape \in {1, 2, 4, 5}

\* occurrences of p in the caller's texts that the shape copies
CountInTexts(shape, p) ==
    (IF BodyIncluded(shape) THEN Count(flags.body, p) ELSE 0)
    + (IF HtmlIncluded(shape) THEN Count(flags.html, p) ELSE 0)

Closing(b) == Dashes \o b \o Dashes
Opening(b) == Dashes \o b

\* occurrences of --boundary that are not the start of --boundary--
OpeningCount(s, b) == Count(s, Opening(b)) - Count(s, Closing(b))
ClosingCount(s, b) == Count(s, Closing(b))

PartBodies(shape) ==
    (IF BodyIncluded(shape) THEN {flags.body} ELSE {})
    \cup (IF HtmlIncluded(shape) THEN {flags.html} ELSE {})
    \cup (IF shape \in {1, 2, 3}
            THEN {base64Content(attachments[i].content) : i \in 1..Len(attachments)}
            ELSE {})
    \cup (IF shape \in {1, 4}
            THEN {base64Content(inlineImages[i].content) : i \in 1..Len(inlineImages)}
            ELSE {})

\* C3: no boundary used by the assembled message occurs inside any of its
\* part bodies, and the boundaries used in one message are pairwise distinct
C3_BoundariesCollisionFree ==
    Assembled =>
        /\ \A u \in UsedBoundaries(InputShape) :
               \A body \in PartBodies(InputShape) : ~Contains(body, u.b)
        /\ \A u, v \in UsedBoundaries(InputShape) : u.parts # v.parts => u.b # v.b
        /\ Cardinality({u.b : u \in UsedBoundaries(InputShape)})
             = Cardinality(UsedBoundaries(InputShape))

\* C4: in every shape the four top-level header lines (MIME-Version, To,
\* Subject, Content-Type) are followed by an empty line before the body
C4_HeadersThenEmptyLine ==
    Assembled =>
        LET L == LinesOf(Decoded)
        IN /\ Len(L) >= 5
           /\ L[1] = Chars("MIME-Version: 1.0")
           /\ StartsWith(L[2], Chars("To: "))
           /\ StartsWith(L[3], Chars("Subject: "))
           /\ StartsWith(L[4], Chars("Content-Type: "))
           /\ L[5] = <<>>

\* the Attachment a successful read of entry i of a batch yields
ExpectedAttachment(i) == loadAttachment(attachmentPaths[i], FileBytes(attachmentPaths[i]))
ExpectedInline(i) ==
    loadInlineImage(inlineImagePaths[i].path, inlineImagePaths[i].cid,
                    FileBytes(inlineImagePaths[i].path))

\* C5: once a read of an attachment or inline image has failed, the run has
\* ended in a failure carrying that read's error and the provider was never
\* called; the provider is called (once) only after every requested file was
\* read successfully
C5_ReadFailureAborts ==
    /\ readErrors # <<>> =>
          /\ providerCalls = <<>>
          /\ raw = <<>>
          /\ pc = "exited" /\ exitCode = 1
          /\ stdout = <<[success |-> FALSE,
                         error |-> [kind |-> "ENOENT", path |-> readErrors[1]]]>>
    /\ providerCalls # <<>> =>
          /\ readErrors = <<>>
          /\ Len(providerCalls) = 1
          /\ attachments = [i \in 1..Len(attachmentPaths) |-> ExpectedAttachment(i)]
          /\ inlineImages = [i \in 1..Len(inlineImagePaths) |-> ExpectedInline(i)]

\* both attachments were read, the first inline image was read and the second
\* inline image's read failed: nothing was sent
C5_Witness ==
    /\ readErrors # <<>>
    /\ Len(attachments) = 2
    /\ batch = "inline"
    /\ DOMAIN loaded = {1}
    /\ providerCalls = <<>>
    /\ pc = "exited"

\* C6: createRawMessage runs only when no issued read is still pending, and
\* while a read is pending nothing has been assembled or sent
C6_AssembleAfterAllReads ==
    /\ raw # <<>> => pending = {}
    /\ (pc = "awaitReads" /\ pending # {}) => (raw = <<>> /\ providerCalls = <<>>)

\* two attachment reads and then two inline-image reads have all completed
\* and the message is assembled
C6_Witness ==
    /\ Assembled
    /\ Len(attachments) = 2 /\ Len(inlineImages) = 2
    /\ pending = {}

\* the values of the Content-ID header lines of a message, in order
ContentIdValues(msg) ==
    LET L == LinesOf(msg)
        key == Chars("Content-ID: ")
        hits == SelectSeq(L, LAMBDA line : StartsWith(line, key))
    IN [k \in 1..Len(hits) |-> SubSeq(hits[k], Len(key) + 1, Len(hits[k]))]

\* C9 as stated: in shapes 1 and 4 every inline image has one part whose
\* Content-ID header value equals the caller's content id
C9_ContentIdEqualsCid ==
    (Assembled /\ InputShape \in {1, 4}) =>
        ContentIdValues(Decoded)
            = [i \in 1..Len(inlineImagePaths) |-> Str(inlineImagePaths[i].cid)]

\* C9 amended: in shapes 1 and 4 every inline image has exactly one part, in
\* the caller's order, whose Content-ID header value is the caller's content
\* id enclosed in angle brackets (an --inline item given without ":cid"
\* yields the value <undefined>)
C9_ContentIdInAngleBrackets ==
    (Assembled /\ InputShape \in {1, 4}) =>
        ContentIdValues(Decoded)
            = [i \in 1..Len(inlineImagePaths) |->
                  <<"<">> \o Str(inlineImagePaths[i].cid) \o <<">">>]

\* HTML with the inline image logo.png:logo and no attachment: the part's
\* Content-ID value is <logo>
C9_Witness ==
    /\ Assembled
    /\ InputShape = 4
    /\ inlineImagePaths = <<[path |-> Chars("logo.png"), cid |-> Chars("logo")]>>
    /\ ContentIdValues(Decoded) = <<Chars("<logo>")>>

---------------------------------------------------------------------------
(* The final encoder on its own: createRawMessage's return expression and  *)
(* decodeBase64Url, over every short message                               *)

MainIdle ==
    /\ command = "none" /\ flags = <<>> /\ pc = "off"
    /\ attachmentPaths = <<>> /\ inlineImagePaths = <<>>
    /\ batch = "none" /\ pending = {} /\ loaded = <<>> /\ readErrors = <<>>
    /\ completed = <<>>
    /\ attachments = <<>> /\ inlineImages = <<>> /\ ts = <<>> /\ raw = <<>>
    /\ providerCalls = <<>> /\ stdout = <<>> /\ exitCode = -1

\* characters whose UTF-8 bytes give every kind of base64 character: ">" and
\* "?" end a group as "+" and "/", U+00E9 takes two bytes
EncChars == {"A", ">", "?", "U+00E9"}

EncInit ==
    /\ CliIdle
    /\ TokIdle
    /\ AuthIdle
    /\ MainIdle
    /\ MdIdle
    /\ TplIdle
    /\ encPc = "input"
    /\ encMsg \in SeqsUpTo(EncChars, MaxMsgLen)
    /\ encRaw = <<>> /\ encBack = <<>> /\ encContent = <<>> /\ encPart = <<>>

\* createRawMessage, lines 414-418, applied to the assembled message
EncEncode ==
    /\ encPc = "input"
    /\ encRaw' = ToBase64Url(BufferFrom(encMsg))
    /\ encPc' = "encoded"
    /\ UNCHANGED <<mainVars, mdVars, tplVars, cliVars, tokVars, authVars,
                   encMsg, encBack, encContent, encPart>>

\* decodeBase64Url applied to the encoded message
EncDecode ==
    /\ encPc = "encoded"
    /\ encBack' = decodeBase64Url(encRaw)
    /\ encPc' = "decoded"
    /\ UNCHANGED <<mainVars, mdVars, tplVars, cliVars, tokVars, authVars,
                   encMsg, encRaw, encContent, encPart>>

EncNext == EncEncode \/ EncDecode

SpecEnc == EncInit /\ [][EncNext]_vars

Range(s) == {s[i] : i \in 1..Len(s)}

\* C7: the returned string has no "+", no "/" and no trailing "=";
\* putting "+" and "/" back and base64-decoding it gives the bytes of the
\* assembled message, and decodeBase64Url gives the message itself
C7_Base64UrlRoundTrip ==
    /\ encPc \in {"encoded", "decoded"} =>
          /\ "+" \notin Range(encRaw)
          /\ "/" \notin Range(encRaw)
          /\ (encRaw # <<>> => encRaw[Len(encRaw)] # "=")
          /\ FromBase64(ReplaceChar(ReplaceChar(encRaw, "-", "+"), "_", "/"))
               = BufferFrom(encMsg)
    /\ encPc = "decoded" => encBack = encMsg

\* a message of 4 bytes (length 1 modulo 3) whose standard base64 has a "/"
\* and two "=": it was encoded and decoded back
C7_Witness ==
    /\ encPc = "decoded"
    /\ Len(BufferFrom(encMsg)) = 4
    /\ "/" \in Range(ToBase64(BufferFrom(encMsg)))
    /\ "_" \in Range(encRaw)
    /\ encBack = encMsg

---------------------------------------------------------------------------
(* The encoding of one binary part on its own, over contents of every     *)
(* length up to MaxContentLen                                              *)

ContentOf(n, seed) == [i \in 1..n |-> (i * 37 + seed * 101) % 256]

WrapInit ==
    /\ CliIdle
    /\ TokIdle
    /\ AuthIdle
    /\ MainIdle
    /\ MdIdle
    /\ TplIdle
    /\ encPc = "content"
    /\ encContent \in {ContentOf(n, seed) : n \in 0..MaxContentLen, seed \in {1, 2}}
    /\ encMsg = <<>> /\ encRaw = <<>> /\ encBack = <<>> /\ encPart = <<>>

\* the base64Content expression of an attachment or inline-image part
WrapEncode ==
    /\ encPc = "content"
    /\ encPart' = base64Content(encContent)
    /\ encPc' = "wrapped"
    /\ UNCHANGED <<mainVars, mdVars, tplVars, cliVars, tokVars, authVars,
                   encMsg, encRaw, encBack, encContent>>

WrapNext == WrapEncode

SpecWrap == WrapInit /\ [][WrapNext]_vars

\* C8: the encoded part body is the base64 of the content cut into lines of
\* exactly 76 characters, the last one of 1 to 76; the lines put together
\* are the unwrapped base64, and an empty content gives an empty body
C8_WrappedAt76 ==
    encPc = "wrapped" =>
        LET L == LinesOf(encPart)
        IN IF encContent = <<>> THEN encPart = <<>>
           ELSE /\ \A k \in 1..(Len(L) - 1) : Len(L[k]) = 76
                /\ Len(L[Len(L)]) \in 1..76
                /\ Concat(L) = ToBase64(encContent)
                /\ Len(L) = (Len(ToBase64(encContent)) + 75) \div 76

\* 115 bytes give 156 base64 characters: two lines of 76 and one of 4
C8_Witness ==
    /\ encPc = "wrapped"
    /\ Len(encContent) = 115
    /\ Len(LinesOf(encPart)) = 3
    /\ Len(LinesOf(encPart)[3]) = 4

---------------------------------------------------------------------------
(* markdownToEmailHtml: the Markdown to email-HTML renderer                *)
(*                                                                         *)
(* The renderer's strings are sequences of characters, except that the     *)
(* value of a generated style attribute is kept as a few multi-character    *)
(* items, split at its parentheses: no pattern of the renderer looks        *)
(* inside such a value other than for "(" and ")", and an item is, to       *)
(* every pattern, one ordinary character that is neither a line break, a    *)
(* blank nor a marker.                                                      *)

IsWordChar(c) ==
    c \in Range(UpperLetters) \cup Range(LowerLetters) \cup Range(Chars("0123456789_"))

IsDigit(c) == c \in Range(Chars("0123456789"))

\* the smallest position in from..to that satisfies Test, 0 when none does
FirstFrom(from, to, Test(_)) ==
    LET found == {j \in from..to : Test(j)}
    IN IF found = {} THEN 0 ELSE CHOOSE j \in found : \A k \in found : j <= k

\* String.prototype.replace with a global pattern, scanning left to right:
\* End(i) is the last position of the match that starts at i (0 when the
\* pattern does not match there), With(i, j) the replacement of s[i..j]
ReplaceMatches(s, End(_), With(_, _)) ==
    LET n == Len(s)
        R[from \in 1..(n + 1)] ==
            LET m == FirstFrom(from, n, LAMBDA i : End(i) > 0)
            IN IF m = 0 THEN SubSeq(s, from, n)
               ELSE SubSeq(s, from, m - 1) \o With(m, End(m)) \o R[End(m) + 1]
    IN R[1]

\* String.prototype.replace with a global /^...$/m pattern that matches
\* within one line: every line that Matches is replaced by With(line)
ReplaceLines(s, Matches(_), With(_)) ==
    LET L == Split(s, "\n")
    IN Join([k \in 1..Len(L) |-> IF Matches(L[k]) THEN With(L[k]) ELSE L[k]], <<"\n">>)

\* String.prototype.replace with a global /(^...$\n?)+/m pattern: every
\* maximal run of consecutive lines that satisfy IsLine, together with the
\* line break that ends each of them, is replaced by With(run)
ReplaceLineRuns(s, IsLine(_), With(_)) ==
    LET L == Split(s, "\n")
        k == Len(L)
        Break(i) == IF i < k THEN <<"\n">> ELSE <<>>
        RunEnd(i) == CHOOSE j \in i..k :
                        /\ \A h \in i..j : IsLine(L[h])
                        /\ (j = k \/ ~IsLine(L[j + 1]))
        Piece(i) ==
            IF ~IsLine(L[i]) THEN L[i] \o Break(i)
            ELSE IF i > 1 /\ IsLine(L[i - 1]) THEN <<>>
            ELSE With(Join(SubSeq(L, i, RunEnd(i)), <<"\n">>) \o Break(RunEnd(i)))
    IN Concat([i \in 1..k |-> Piece(i)])

\* String.prototype.replace(/c/g, by) for a character c
ReplaceAll(s, c, by) ==
    Concat([i \in 1..Len(s) |-> IF s[i] = c THEN by ELSE <<s[i]>>])

\* 'style="..."'
StyleAttr(value) == Chars("style=\"") \o value \o <<"\"">>

\* the styles object of markdownToEmailHtml
styles(style) ==
    LET isLabs == style = "labs"
    IN
    [
      h1 |-> StyleAttr(IF isLabs
          THEN <<"font-size: 36px; font-weight: 900; letter-spacing: -0.02em; line-height: 1.0; color: #000000; margin: 0 0 20px 0; padding-bottom: 20px; border-bottom: 2px solid #000000;">>
          ELSE <<"font-size: 32px; font-weight: 700; letter-spacing: -0.045em; line-height: 1.1; color: #000000; margin: 0 0 20px 0; padding-bottom: 20px; border-bottom: 2px solid #0e3b46;">>),
      h2 |-> StyleAttr(IF isLabs
          THEN <<"font-size: 22px; font-weight: 900; text-transform: uppercase; letter-spacing: 0.05em; line-height: 1.2; color: #000000; margin: 32px 0 16px 0; padding-bottom: 8px; border-bottom: 1px solid #000000;">>
          ELSE <<"font-size: 24px; font-weight: 700; letter-spacing: -0.03em; line-height: 1.2; color: #000000; margin: 32px 0 16px 0; padding-bottom: 8px; border-bottom: 1px solid #d4d3cf;">>),
      h3 |-> StyleAttr(IF isLabs
          THEN <<"font-size: 18px; font-weight: 700; line-height: 1.3; color: #000000; margin: 24px 0 12px 0;">>
          ELSE <<"font-size: 18px; font-weight: 700; letter-spacing: -0.02em; line-height: 1.3; color: #000000; margin: 24px 0 12px 0;">>),
      h4 |-> StyleAttr(
          <<"font-size: 16px; font-weight: 700; color: #000000; margin: 20px 0 8px 0;">>),
      p |-> StyleAttr(
          <<"font-size: 16px; line-height: 1.6; color: #000000; margin: 0 0 16px 0;">>),
      a |-> StyleAttr(IF isLabs
          THEN <<"color: #0055aa; text-decoration: underline;">>
          ELSE <<"color: #0e3b46; text-decoration: none; border-bottom: 1px solid #0e3b46;">>),
      blockquote |-> StyleAttr(IF isLabs
          THEN <<"margin: 20px 0; padding: 16px; background: white; border: 1px solid #000000; border-left: 4px solid #0055aa; color: #000000;">>
          ELSE <<"margin: 20px 0; padding: 16px 20px; border-left: 3px solid #0e3b46; background: rgba", "(", "14, 59, 70, 0.03", ")", "; font-style: italic; color: #000000;">>),
      code |-> StyleAttr(IF isLabs
          THEN <<"font-family: 'Courier New', monospace; font-size: 14px; background: #e6e4dc; padding: 2px 6px; border: 1px solid rgba", "(", "0, 0, 0, 0.2", ")", "; color: #000000;">>
          ELSE <<"font-family: 'Courier New', monospace; font-size: 14px; background: rgba", "(", "14, 59, 70, 0.06", ")", "; padding: 2px 6px; border-radius: 3px; color: #000000;">>),
      pre |-> StyleAttr(
          <<"margin: 20px 0; padding: 20px; background: #f4f4f4; color: #1a1a1a; overflow-x: auto; font-family: 'Courier New', monospace; font-size: 14px; line-height: 1.5; border-radius: 6px; border: 1px solid #d0d0d0;">>),
      hr |-> StyleAttr(IF isLabs
          THEN <<"margin: 32px 0; border: none; border-top: 2px solid #000000;">>
          ELSE <<"margin: 32px 0; border: none; height: 1px; background: #d4d3cf;">>),
      ul |-> StyleAttr(
          <<"margin: 0 0 16px 0; padding-left: 24px;">>),
      ol |-> StyleAttr(
          <<"margin: 0 0 16px 0; padding-left: 24px;">>),
      li |-> StyleAttr(
          <<"font-size: 16px; line-height: 1.6; color: #000000; margin-bottom: 8px;">>),
      table |-> StyleAttr(
          <<"width: 100%; margin: 20px 0; border-collapse: collapse; font-size: 15px;">>),
      th |-> StyleAttr(IF isLabs
          THEN <<"padding: 10px 12px; text-align: left; border: 1px solid #000000; font-family: 'Courier New', monospace; font-size: 11px; font-weight: 700; text-transform: uppercase; letter-spacing: 0.1em; background: #000000; color: #ffffff;">>
          ELSE <<"padding: 10px 12px; text-align: left; border-bottom: 1px solid #d4d3cf; font-family: 'Courier New', monospace; font-size: 12px; font-weight: 500; text-transform: uppercase; letter-spacing: 0.12em; color: #000000; background: rgba", "(", "14, 59, 70, 0.03", ")", ";">>),
      td |-> StyleAttr(IF isLabs
          THEN <<"padding: 10px 12px; text-align: left; border: 1px solid #000000; font-size: 15px; color: #000000;">>
          ELSE <<"padding: 10px 12px; text-align: left; border-bottom: 1px solid #d4d3cf; font-size: 15px; color: #000000;">>),
      strong |-> StyleAttr(
          <<"font-weight: 700;">>),
      em |-> StyleAttr(
          <<"font-style: italic;">>)
    ]

\* `<name ${styles.name}>`
OpenTag(name, style) == <<"<">> \o Chars(name) \o <<" ">> \o styles(style)[name] \o <<">">>

\* `</name>`
CloseTag(name) == <<"<", "/">> \o Chars(name) \o <<">">>

\* the title: md.match(/^# (.+)$/m), "Report" when no line matches
IsH1Line(line) == StartsWith(line, Chars("# ")) /\ Len(line) >= 3

titleOf_LastH1(md) ==
    LET L == Split(md, "\n")
        last == FirstFrom(1, Len(L), LAMBDA k : IsH1Line(L[Len(L) + 1 - k]))
    IN IF last = 0 THEN Chars("Report")
       ELSE SubSeq(L[Len(L) + 1 - last], 3, Len(L[Len(L) + 1 - last]))

titleOf(md) ==
    LET L == Split(md, "\n")
        first == FirstFrom(1, Len(L), LAMBDA k : IsH1Line(L[k]))
    IN IF first = 0 THEN Chars("Report") ELSE SubSeq(L[first], 3, Len(L[first]))

\* the replacement callback's escaping of the code: trim, then &, <, >, ", '
EscapeCode(code) ==
    ReplaceAll(ReplaceAll(ReplaceAll(ReplaceAll(ReplaceAll(Trim(code),
        "&", Chars("&amp;")), "<", Chars("&lt;")), ">", Chars("&gt;")),
        "\"", Chars("&quot;")), "'", Chars("&#039;"))

\* "```" at position p
FenceAt(s, p) ==
    /\ p >= 1 /\ p + 2 <= Len(s)
    /\ s[p] = Backtick /\ s[p + 1] = Backtick /\ s[p + 2] = Backtick

\* /```(\w*)\n([\s\S]*?)```/ at position i: the position of the \n that ends
\* the language tag (0 when there is none) ...
CodeNewline(s, i) ==
    LET w == FirstFrom(i + 3, Len(s), LAMBDA p : ~IsWordChar(s[p]))
    IN IF FenceAt(s, i) /\ w > 0 /\ s[w] = "\n" THEN w ELSE 0

\* ... and the first position of the closing fence (0 when there is none)
CodeClose(s, i) ==
    IF CodeNewline(s, i) = 0 THEN 0
    ELSE FirstFrom(CodeNewline(s, i) + 1, Len(s), LAMBDA p : FenceAt(s, p))

\* `<pre ${styles.pre}><code>${escaped}</code></pre>`
RenderedCode(code, style) ==
    OpenTag("pre", style) \o Chars("<code>") \o EscapeCode(code)
        \o CloseTag("code") \o CloseTag("pre")

\* Handle code blocks first
CodeBlockPass(s, style) ==
    ReplaceMatches(s,
        LAMBDA i : IF CodeClose(s, i) = 0 THEN 0 ELSE CodeClose(s, i) + 2,
        LAMBDA i, j : RenderedCode(SubSeq(s, CodeNewline(s, i) + 1, j - 3), style))

\* /^\|.+\|$/
IsTableLine(line) ==
    Len(line) >= 3 /\ line[1] = "|" /\ line[Len(line)] = "|"

\* parseRow: row.split("|").slice(1, -1).map(trim)
parseRow(row) ==
    LET cells == Split(row, "|")
    IN [k \in 1..(Len(cells) - 2) |-> Trim(cells[k + 1])]

\* /^\|[\s:-]+\|$/
isSeparator(row) ==
    /\ IsTableLine(row)
    /\ \A k \in 2..(Len(row) - 1) : IsSpace(row[k]) \/ row[k] \in {":", "-"}

\* the replacement callback of the table pattern
TableCallback(tableBlock, style) ==
    LET rows == SelectSeq(Split(Trim(tableBlock), "\n"), LAMBDA r : Trim(r) # <<>>)
        headerCells == parseRow(rows[1])
        dataRows == SelectSeq(SubSeq(rows, 2, Len(rows)), LAMBDA r : ~isSeparator(r))
        Th(cell) == OpenTag("th", style) \o cell \o CloseTag("th")
        Td(cell) == OpenTag("td", style) \o cell \o CloseTag("td")
        Tr(row) ==
            Chars("<tr>")
              \o Concat([k \in 1..Len(parseRow(row)) |-> Td(parseRow(row)[k])])
              \o Chars("</tr>")
    IN IF Len(rows) < 2 THEN tableBlock
       ELSE OpenTag("table", style) \o Chars("<thead><tr>")
              \o Concat([k \in 1..Len(headerCells) |-> Th(headerCells[k])])
              \o Chars("</tr></thead><tbody>")
              \o Concat([k \in 1..Len(dataRows) |-> Tr(dataRows[k])])
              \o Chars("</tbody></table>")

\* Handle tables
TablePass(s, style) ==
    ReplaceLineRuns(s, IsTableLine, LAMBDA run : TableCallback(run, style))

\* .replace(/^marks (.+)$/gm, `<name ${styles.name}>$1</name>`)
HeaderReplace(s, marks, name, style) ==
    ReplaceLines(s,
        LAMBDA line : StartsWith(line, marks \o <<" ">>) /\ Len(line) >= Len(marks) + 2,
        LAMBDA line : OpenTag(name, style)
                        \o SubSeq(line, Len(marks) + 2, Len(line)) \o CloseTag(name))

\* Convert headers
HeaderPass(s, style) ==
    HeaderReplace(HeaderReplace(HeaderReplace(HeaderReplace(s,
        Chars("####"), "h4", style), Chars("###"), "h3", style),
        Chars("##"), "h2", style), Chars("#"), "h1", style)

\* /\*\*(.+?)\*\*/ at position i: the first position of the closing "**"
BoldClose(s, i) ==
    IF ~MatchAt(s, <<"*", "*">>, i) THEN 0
    ELSE LET stop == FirstFrom(i + 2, Len(s), LAMBDA p : s[p] = "\n")
             last == IF stop = 0 THEN Len(s) ELSE stop - 1
         IN FirstFrom(i + 3, last - 1, LAMBDA p : MatchAt(s, <<"*", "*">>, p))

BoldReplace(s, style) ==
    ReplaceMatches(s,
        LAMBDA i : IF BoldClose(s, i) = 0 THEN 0 ELSE BoldClose(s, i) + 1,
        LAMBDA i, j : OpenTag("strong", style) \o SubSeq(s, i + 2, j - 2)
                        \o CloseTag("strong"))

\* a pattern "open, one or more characters other than close, close" at
\* position i: the position of the close (0 when it does not match)
SpanClose(s, i, open, close) ==
    IF i < 1 \/ i + 1 > Len(s) \/ s[i] # open \/ s[i + 1] = close THEN 0
    ELSE FirstFrom(i + 2, Len(s), LAMBDA p : s[p] = close)

\* .replace(/\*([^*]+?)\*/g, `<em ${styles.em}>$1</em>`)
ItalicReplace(s, style) ==
    ReplaceMatches(s,
        LAMBDA i : SpanClose(s, i, "*", "*"),
        LAMBDA i, j : OpenTag("em", style) \o SubSeq(s, i + 1, j - 1) \o CloseTag("em"))

\* /\[([^\]]+)\]\(([^)]+)\)/ at position i: the position of the "]" ...
LinkBracket(s, i) ==
    LET b == SpanClose(s, i, "[", "]")
    IN IF b > 0 /\ SpanClose(s, b + 1, "(", ")") > 0 THEN b ELSE 0

\* ... and of the ")"
LinkClose(s, i) ==
    IF LinkBracket(s, i) = 0 THEN 0 ELSE SpanClose(s, LinkBracket(s, i) + 1, "(", ")")

\* .replace(/\[([^\]]+)\]\(([^)]+)\)/g, `<a href="$2" ${styles.a}>$1</a>`)
LinkReplace(s, style) ==
    ReplaceMatches(s,
        LAMBDA i : LinkClose(s, i),
        LAMBDA i, j : Chars("<a href=\"") \o SubSeq(s, LinkBracket(s, i) + 2, j - 1)
                        \o Chars("\" ") \o styles(style).a \o <<">">>
                        \o SubSeq(s, i + 1, LinkBracket(s, i) - 1) \o CloseTag("a"))

\* .replace(/`([^`]+)`/g, `<code ${styles.code}>$1</code>`)
InlineCodeReplace(s, style) ==
    ReplaceMatches(s,
        LAMBDA i : SpanClose(s, i, Backtick, Backtick),
        LAMBDA i, j : OpenTag("code", style) \o SubSeq(s, i + 1, j - 1)
                        \o CloseTag("code"))

\* .replace(/^---$/gm, `<hr ${styles.hr}>`)
RuleReplace(s, style) ==
    ReplaceLines(s, LAMBDA line : line = Chars("---"), LAMBDA line : OpenTag("hr", style))

\* Inline formatting
InlinePass(s, style) ==
    RuleReplace(InlineCodeReplace(LinkReplace(ItalicReplace(BoldReplace(s,
        style), style), style), style), style)

IsQuoteLine_OrBlank(line) == line = <<>> \/ line[1] = ">"

\* /^>.*$/
IsQuoteLine(line) == Len(line) >= 1 /\ line[1] = ">"

\* line.replace(/^>\s?/, "")
StripQuoteMark(line) ==
    IF ~IsQuoteLine(line) THEN line
    ELSE IF Len(line) >= 2 /\ IsSpace(line[2]) THEN SubSeq(line, 3, Len(line))
    ELSE SubSeq(line, 2, Len(line))

\* the replacement callback of the blockquote pattern
BlockquoteCallback(match, style) ==
    LET kept == SelectSeq(Split(match, "\n"), LAMBDA line : Trim(line) # <<>>)
        stripped == [k \in 1..Len(kept) |-> Trim(StripQuoteMark(kept[k]))]
        quoted == SelectSeq(stripped, LAMBDA line : line # <<>>)
    IN IF Len(quoted) = 0 THEN <<>>
       ELSE OpenTag("blockquote", style) \o OpenTag("p", style)
              \o Join(quoted, Chars("<br>"))
              \o CloseTag("p") \o CloseTag("blockquote")

\* Blockquotes
BlockquotePass(s, style) ==
    ReplaceLineRuns(s, IsQuoteLine, LAMBDA run : BlockquoteCallback(run, style))

\* the items of a list: one <li> for each non-blank line, without the first
\* skip characters of the line, joined by line breaks
ListItems(match, skip(_), style) ==
    LET kept == SelectSeq(Split(match, "\n"), LAMBDA line : Trim(line) # <<>>)
    IN Join([k \in 1..Len(kept) |->
                OpenTag("li", style)
                  \o SubSeq(kept[k], skip(kept[k]) + 1, Len(kept[k]))
                  \o CloseTag("li")], <<"\n">>)

\* /^- .+$/
IsBulletLine(line) == Len(line) >= 3 /\ line[1] = "-" /\ line[2] = " "

\* Unordered lists
UnorderedListPass(s, style) ==
    ReplaceLineRuns(s, IsBulletLine,
        LAMBDA run : OpenTag("ul", style) \o <<"\n">>
                       \o ListItems(run, LAMBDA line : 2, style)
                       \o <<"\n">> \o CloseTag("ul"))

\* the length of the /^\d+\. / prefix of a line, 0 when it has none
NumberPrefix(line) ==
    LET d == FirstFrom(1, Len(line), LAMBDA p : ~IsDigit(line[p]))
    IN IF d > 1 /\ d + 1 <= Len(line) /\ line[d] = "." /\ line[d + 1] = " "
       THEN d + 1 ELSE 0

\* /^\d+\. .+$/
IsNumberLine(line) == NumberPrefix(line) > 0 /\ Len(line) > NumberPrefix(line)

\* Ordered lists
OrderedListPass(s, style) ==
    ReplaceLineRuns(s, IsNumberLine,
        LAMBDA run : OpenTag("ol", style) \o <<"\n">>
                       \o ListItems(run, NumberPrefix, style)
                       \o <<"\n">> \o CloseTag("ol"))

BlockNames ==
    {"h1", "h2", "h3", "h4", "h5", "h6", "ul", "ol", "li", "blockquote", "pre",
     "hr", "p", "table", "thead", "tbody", "tr", "th", "td"}

\* isBlockElement, of a trimmed line
isBlockElement(trimmed) ==
    \/ \E name \in BlockNames : StartsWith(trimmed, <<"<">> \o Chars(name))
    \/ \E name \in BlockNames \ {"hr"} : StartsWith(trimmed, CloseTag(name))

ParagraphPass_NoCloseBeforeBlock(s, style) ==
    LET L == Split(s, "\n")
        Loop[k \in 0..Len(L)] ==
            IF k = 0 THEN [processedLines |-> <<>>, inParagraph |-> FALSE]
            ELSE LET before == Loop[k - 1]
                     line == L[k]
                     trimmed == Trim(line)
                     closed == before.processedLines
                 IN IF trimmed = <<>> \/ isBlockElement(trimmed)
                      THEN [processedLines |-> Append(closed, line),
                            inParagraph |-> FALSE]
                    ELSE IF ~before.inParagraph
                      THEN [processedLines |->
                                Append(before.processedLines, OpenTag("p", style) \o line),
                            inParagraph |-> TRUE]
                    ELSE [processedLines |-> Append(before.processedLines, line),
                          inParagraph |-> TRUE]
        end == Loop[Len(L)]
    IN Join(IF end.inParagraph THEN Append(end.processedLines, CloseTag("p"))
            ELSE end.processedLines, <<"\n">>)

\* Wrap loose text in paragraphs: the loop over the lines, its state after
\* each line, and the final close
ParagraphPass(s, style) ==
    LET L == Split(s, "\n")
        Loop[k \in 0..Len(L)] ==
            IF k = 0 THEN [processedLines |-> <<>>, inParagraph |-> FALSE]
            ELSE LET before == Loop[k - 1]
                     line == L[k]
                     trimmed == Trim(line)
                     closed == IF before.inParagraph
                                 THEN Append(before.processedLines, CloseTag("p"))
                                 ELSE before.processedLines
                 IN IF trimmed = <<>> \/ isBlockElement(trimmed)
                      THEN [processedLines |-> Append(closed, line),
                            inParagraph |-> FALSE]
                    ELSE IF ~before.inParagraph
                      THEN [processedLines |->
                                Append(before.processedLines, OpenTag("p", style) \o line),
                            inParagraph |-> TRUE]
                    ELSE [processedLines |-> Append(before.processedLines, line),
                          inParagraph |-> TRUE]
        end == Loop[Len(L)]
    IN Join(IF end.inParagraph THEN Append(end.processedLines, CloseTag("p"))
            ELSE end.processedLines, <<"\n">>)

\* markdownToEmailHtml(md, style): { html, title }
markdownToEmailHtml(md, style) ==
    LET title == titleOf(md)
        \* html = html.replace(...), statement after statement: each set
        \* holds the html one statement leaves for the next
        afterCodeBlocks == {CodeBlockPass(md, style)}
        afterTables == {TablePass(h, style) : h \in afterCodeBlocks}
        afterHeaders == {HeaderPass(h, style) : h \in afterTables}
        afterInline == {InlinePass(h, style) : h \in afterHeaders}
        afterBlockquotes == {BlockquotePass(h, style) : h \in afterInline}
        afterUnorderedLists == {UnorderedListPass(h, style) : h \in afterBlockquotes}
        afterOrderedLists == {OrderedListPass(h, style) : h \in afterUnorderedLists}
        afterParagraphs == {ParagraphPass(h, style) : h \in afterOrderedLists}
    IN  CHOOSE r \in {[html |-> h, title |-> title] : h \in afterParagraphs} : TRUE

---------------------------------------------------------------------------
(* markdownToEmailHtml run pass by pass over bounded documents *)

\* the lines and blocks the documents are made of
MdBlocks ==
    {<<Backtick, Backtick, Backtick>>,
     Chars("**b**"),
     Chars("*i*"),
     Chars("[t](u)"),
     <<Backtick, "c", Backtick>>,
     Chars("# T"),
     Chars("---"),
     Chars("> q"),
     Chars("- a"),
     Chars("|a|\n|b|"),
     Chars("<b>&")}

\* the documents: up to MaxMdBlocks blocks, one per line
MdDocuments == {Join(q, <<"\n">>) : q \in SeqsUpTo(MdBlocks, MaxMdBlocks)}

MdInit ==
    /\ CliIdle
    /\ TokIdle
    /\ AuthIdle
    /\ MainIdle
    /\ EncIdle
    /\ TplIdle
    /\ mdPc = "codeBlocks"
    /\ mdInput \in MdDocuments
    /\ mdStyle \in {"client", "labs"}
    /\ mdHtml = mdInput
    /\ mdTitle = Chars("Report")

\* one pass of markdownToEmailHtml: html = Pass(html)
MdStep(at, result, next) ==
    /\ mdPc = at
    /\ mdHtml' = result
    /\ mdPc' = next
    /\ UNCHANGED <<mainVars, encVars, tplVars, cliVars, tokVars, authVars, mdInput, mdStyle>>

\* the title is taken from md, then the code blocks are handled
MdCodeBlocks ==
    /\ MdStep("codeBlocks", CodeBlockPass(mdHtml, mdStyle), "tables")
    /\ mdTitle' = titleOf(mdInput)

MdTables ==
    /\ MdStep("tables", TablePass(mdHtml, mdStyle), "headers")
    /\ UNCHANGED mdTitle

MdHeaders ==
    /\ MdStep("headers", HeaderPass(mdHtml, mdStyle), "inline")
    /\ UNCHANGED mdTitle

MdInline ==
    /\ MdStep("inline", InlinePass(mdHtml, mdStyle), "blockquotes")
    /\ UNCHANGED mdTitle

MdBlockquotes ==
    /\ MdStep("blockquotes", BlockquotePass(mdHtml, mdStyle), "unorderedLists")
    /\ UNCHANGED mdTitle

MdUnorderedLists ==
    /\ MdStep("unorderedLists", UnorderedListPass(mdHtml, mdStyle), "orderedLists")
    /\ UNCHANGED mdTitle

MdOrderedLists ==
    /\ MdStep("orderedLists", OrderedListPass(mdHtml, mdStyle), "paragraphs")
    /\ UNCHANGED mdTitle

MdParagraphs ==
    /\ MdStep("paragraphs", ParagraphPass(mdHtml, mdStyle), "returned")
    /\ UNCHANGED mdTitle

MdNext ==
    \/ MdCodeBlocks
    \/ MdTables
    \/ MdHeaders
    \/ MdInline
    \/ MdBlockquotes
    \/ MdUnorderedLists
    \/ MdOrderedLists
    \/ MdParagraphs

SpecMd == MdInit /\ [][MdNext]_vars

\* the fenced code blocks of md as the code-block pass renders them, in order
RECURSIVE CodeBlocksFrom(_, _, _)
CodeBlocksFrom(s, from, style) ==
    LET m == FirstFrom(from, Len(s), LAMBDA i : CodeClose(s, i) > 0)
    IN IF m = 0 THEN <<>>
       ELSE <<RenderedCode(SubSeq(s, CodeNewline(s, m) + 1, CodeClose(s, m) - 1), style)>>
              \o CodeBlocksFrom(s, CodeClose(s, m) + 3, style)

\* the passes that come after the code-block pass and before the paragraph
\* pass have run, some or all of them
AfterCodeBlocks ==
    mdPc \in {"tables", "headers", "inline", "blockquotes", "unorderedLists",
              "orderedLists", "paragraphs"}

\* C10: the content of a fenced code block is opaque: once the code-block
\* pass has rendered it as <pre><code>, HTML-escaped, the table, heading,
\* bold, italic, link, inline-code, rule, blockquote and list passes leave
\* every rendered block in the html as it is
C10_CodeBlockOpaque ==
    AfterCodeBlocks =>
        LET blocks == CodeBlocksFrom(mdInput, 1, mdStyle)
        IN \A k \in 1..Len(blocks) : Contains(mdHtml, blocks[k])


---------------------------------------------------------------------------
(* Fenced code blocks with HTML-special characters *)

EscapeBlocks ==
    {<<Backtick, Backtick, Backtick>>,
     <<Backtick, Backtick, Backtick, "j", "s">>,
     <<Backtick, Backtick, Backtick, "c", "+", "+">>,
     Chars("<script>"),
     Chars("a & b"),
     Chars("\"q\" 'r'"),
     Chars("&lt;"),
     Chars("x")}

EscapeDocuments == {Join(q, <<"\n">>) : q \in SeqsUpTo(EscapeBlocks, MaxMdBlocks)}

EscapeInit ==
    /\ CliIdle
    /\ TokIdle
    /\ AuthIdle
    /\ MainIdle
    /\ EncIdle
    /\ TplIdle
    /\ mdPc = "codeBlocks"
    /\ mdInput \in EscapeDocuments
    /\ mdStyle \in {"client", "labs"}
    /\ mdHtml = mdInput
    /\ mdTitle = Chars("Report")

SpecMdEscape == EscapeInit /\ [][MdNext]_vars

\* a fenced code block as it is written: "```", an optional language tag
\* that runs to the end of the line, a line break, then the content up to
\* the next "```".  The position of the line break that ends the opening
\* fence at i (0 when no fence opens there) ...
FenceLineEnd(s, i) ==
    LET e == FirstFrom(i + 3, Len(s), LAMBDA p : s[p] = "\n" \/ s[p] = Backtick)
    IN IF FenceAt(s, i) /\ e > 0 /\ s[e] = "\n" THEN e ELSE 0

\* ... and the first position of its closing fence
FenceClose(s, i) ==
    IF FenceLineEnd(s, i) = 0 THEN 0
    ELSE FirstFrom(FenceLineEnd(s, i) + 1, Len(s), LAMBDA p : FenceAt(s, p))

\* the entity of a character, the character itself when it has none
EntityOf(c) ==
    CASE c = "&" -> Chars("&amp;")
      [] c = "<" -> Chars("&lt;")
      [] c = ">" -> Chars("&gt;")
      [] c = "\"" -> Chars("&quot;")
      [] c = "'" -> Chars("&#039;")
      [] OTHER -> <<c>>

Entities(s) == Concat([i \in 1..Len(s) |-> EntityOf(s[i])])

\* md with every fenced code block put as <pre><code>, each character of
\* its content as its entity
WithEscapedCode(s, style) ==
    ReplaceMatches(s,
        LAMBDA i : IF FenceClose(s, i) = 0 THEN 0 ELSE FenceClose(s, i) + 2,
        LAMBDA i, j : OpenTag("pre", style) \o Chars("<code>")
                        \o Entities(Trim(SubSeq(s, FenceLineEnd(s, i) + 1, j - 3)))
                        \o CloseTag("code") \o CloseTag("pre"))

\* md without its fenced code blocks
OutsideFences(s) ==
    ReplaceMatches(s,
        LAMBDA i : IF FenceClose(s, i) = 0 THEN 0 ELSE FenceClose(s, i) + 2,
        LAMBDA i, j : <<>>)

\* C11: after the code-block pass every fenced code block is
\* <pre><code> around its content with each &, <, >, " and ' as its entity,
\* no entity escaped twice; and when <script occurs in md only inside
\* fenced code blocks, the returned html has no <script
C11_CodeEscaped ==
    /\ mdPc = "tables" => mdHtml = WithEscapedCode(mdInput, mdStyle)
    /\ (mdPc = "returned" /\ ~Contains(OutsideFences(mdInput), Chars("<script")))
          => ~Contains(mdHtml, Chars("<script"))


---------------------------------------------------------------------------
(* Inline code spans around other inline markers *)

CodeSpan(text) == <<Backtick>> \o text \o <<Backtick>>

SpanBlocks ==
    {CodeSpan(Chars("**x**")),
     CodeSpan(Chars("[t](u)")),
     CodeSpan(Chars("*i*")),
     CodeSpan(Chars("c")),
     Chars("**b**"),
     Chars("a")}

SpanDocuments == {Join(q, <<"\n">>) : q \in SeqsUpTo(SpanBlocks, MaxMdBlocks)}

SpanInit ==
    /\ CliIdle
    /\ TokIdle
    /\ AuthIdle
    /\ MainIdle
    /\ EncIdle
    /\ TplIdle
    /\ mdPc = "codeBlocks"
    /\ mdInput \in SpanDocuments
    /\ mdStyle \in {"client", "labs"}
    /\ mdHtml = mdInput
    /\ mdTitle = Chars("Report")

SpecMdSpan == SpanInit /\ [][MdNext]_vars

\* a line that is one inline code span: a backtick, text without backticks,
\* a backtick
IsCodeSpanLine(line) ==
    /\ Len(line) >= 3
    /\ line[1] = Backtick /\ line[Len(line)] = Backtick
    /\ \A k \in 2..(Len(line) - 1) : line[k] # Backtick

\* C12: bold, italic and link markers between single backticks are not
\* interpreted: for every line of md that is one inline code span, the
\* returned html has the <code> element with the text between the backticks
\* as it was written
C12_InlineCodeLiteral ==
    mdPc = "returned" =>
        \A k \in 1..Len(Split(mdInput, "\n")) :
            LET line == Split(mdInput, "\n")[k]
            IN IsCodeSpanLine(line) =>
                  Contains(mdHtml, OpenTag("code", mdStyle)
                                     \o SubSeq(line, 2, Len(line) - 1)
                                     \o CloseTag("code"))


---------------------------------------------------------------------------
(* Blockquote runs *)

QuoteBlocks ==
    {Chars("> a"), Chars(">b"), Chars(">"), <<>>, Chars("x")}

QuoteDocuments == {Join(q, <<"\n">>) : q \in SeqsUpTo(QuoteBlocks, MaxMdBlocks)}

QuoteInit ==
    /\ CliIdle
    /\ TokIdle
    /\ AuthIdle
    /\ MainIdle
    /\ EncIdle
    /\ TplIdle
    /\ mdPc = "codeBlocks"
    /\ mdInput \in QuoteDocuments
    /\ mdStyle \in {"client", "labs"}
    /\ mdHtml = mdInput
    /\ mdTitle = Chars("Report")

SpecMdQuote == QuoteInit /\ [][MdNext]_vars

\* the lines of md
MdLines == Split(mdInput, "\n")

\* line k of md starts with ">"
Quoted(k) == k \in 1..Len(MdLines) /\ MdLines[k] # <<>> /\ MdLines[k][1] = ">"

\* what line k quotes
QuotedText(k) == Trim(SubSeq(MdLines[k], 2, Len(MdLines[k])))

\* the last line of the run of quoted lines that starts at line k
QuoteRunEnd(k) ==
    CHOOSE j \in k..Len(MdLines) :
        (\A h \in k..j : Quoted(h)) /\ ~Quoted(j + 1)

\* the first lines of the runs of quoted lines that quote some text
QuoteRuns ==
    {k \in 1..Len(MdLines) :
        /\ Quoted(k) /\ ~Quoted(k - 1)
        /\ \E h \in k..QuoteRunEnd(k) : QuotedText(h) # <<>>}

\* the <blockquote> element of the run that starts at line k: the quoted
\* texts that are not empty, joined by <br>, in one paragraph
QuoteElement(k) ==
    LET texts == SelectSeq([h \in 1..(QuoteRunEnd(k) - k + 1) |-> QuotedText(k + h - 1)],
                           LAMBDA t : t # <<>>)
    IN OpenTag("blockquote", mdStyle) \o OpenTag("p", mdStyle)
         \o Join(texts, Chars("<br>"))
         \o CloseTag("p") \o CloseTag("blockquote")

---------------------------------------------------------------------------
(* Tables *)

TableBlocks ==
    {Chars("|a|b|"), Chars("| 1 |2|"), Chars("|---|---|"), Chars("|---|"),
     Chars("|c|"), Chars("t"), <<>>}

TableDocuments == {Join(q, <<"\n">>) : q \in SeqsUpTo(TableBlocks, MaxMdBlocks)}

TableInit ==
    /\ CliIdle
    /\ TokIdle
    /\ AuthIdle
    /\ MainIdle
    /\ EncIdle
    /\ TplIdle
    /\ mdPc = "codeBlocks"
    /\ mdInput \in TableDocuments
    /\ mdStyle \in {"client", "labs"}
    /\ mdHtml = mdInput
    /\ mdTitle = Chars("Report")

SpecMdTable == TableInit /\ [][MdNext]_vars

\* line k of md is pipe-delimited: it starts and ends with "|" and has
\* something in between
Piped(k) ==
    /\ k \in 1..Len(MdLines)
    /\ Len(MdLines[k]) >= 3
    /\ MdLines[k][1] = "|" /\ MdLines[k][Len(MdLines[k])] = "|"

\* the trimmed cells of the pipe-delimited line k, in column order
CellsOf(k) ==
    LET parts == Split(MdLines[k], "|")
    IN [c \in 1..(Len(parts) - 2) |-> Trim(parts[c + 1])]

\* line k is a separator line: every cell is made of "-", ":" and blanks
SeparatorLine(k) ==
    LET parts == Split(MdLines[k], "|")
    IN \A c \in 2..(Len(parts) - 1) :
          /\ parts[c] # <<>>
          /\ \A h \in 1..Len(parts[c]) : parts[c][h] \in {"-", ":", " "}

\* the last line of the run of pipe-delimited lines that starts at line k
TableRunEnd(k) ==
    CHOOSE j \in k..Len(MdLines) : (\A h \in k..j : Piped(h)) /\ ~Piped(j + 1)

\* the first lines of the runs of pipe-delimited lines
TableRuns == {k \in 1..Len(MdLines) : Piped(k) /\ ~Piped(k - 1)}

\* the <table> element of the run that starts at line k
TableElement(k) ==
    LET body == SelectSeq([h \in 1..(TableRunEnd(k) - k) |-> k + h],
                          LAMBDA h : ~SeparatorLine(h))
        Th(cell) == OpenTag("th", mdStyle) \o cell \o CloseTag("th")
        Td(cell) == OpenTag("td", mdStyle) \o cell \o CloseTag("td")
        Row(h) == Chars("<tr>")
                    \o Concat([c \in 1..Len(CellsOf(h)) |-> Td(CellsOf(h)[c])])
                    \o Chars("</tr>")
    IN OpenTag("table", mdStyle) \o Chars("<thead><tr>")
         \o Concat([c \in 1..Len(CellsOf(k)) |-> Th(CellsOf(k)[c])])
         \o Chars("</tr></thead><tbody>")
         \o Concat([h \in 1..Len(body) |-> Row(body[h])])
         \o Chars("</tbody></table>")

\* C14: every run of two or more pipe-delimited lines is exactly one
\* <table>: header cells from the first line, then one body row for each
\* later line that is not a separator line, in input order; a run of one
\* line is not converted and stays in the html as it was written
C14_TablePerRun ==
    mdPc = "returned" =>
        /\ Count(mdHtml, Chars("<table")) =
              Cardinality({k \in TableRuns : TableRunEnd(k) > k})
        /\ \A k \in TableRuns :
              IF TableRunEnd(k) > k THEN Contains(mdHtml, TableElement(k))
              ELSE Contains(mdHtml, MdLines[k])


---------------------------------------------------------------------------
(* The paragraph pass over rendered blocks and loose text *)

ParagraphBlocks ==
    {<<Backtick, Backtick, Backtick>>,
     Chars("a"),
     Chars("b\nc"),
     <<>>,
     Chars("- i"),
     Chars("1. n"),
     Chars("|h|\n|d|"),
     Chars("> q"),
     Chars("## T")}

ParagraphDocuments ==
    {Join(q, <<"\n">>) : q \in SeqsUpTo(ParagraphBlocks, MaxMdBlocks)}

ParagraphInit ==
    /\ CliIdle
    /\ TokIdle
    /\ AuthIdle
    /\ MainIdle
    /\ EncIdle
    /\ TplIdle
    /\ mdPc = "codeBlocks"
    /\ mdInput \in ParagraphDocuments
    /\ mdStyle \in {"client", "labs"}
    /\ mdHtml = mdInput
    /\ mdTitle = Chars("Report")

SpecMdParagraph == ParagraphInit /\ [][MdNext]_vars

\* the rendered elements of one kind in s: from each "<name " to the first
\* "</name>" after it
ElementsOf(s, name) ==
    LET open == <<"<">> \o Chars(name) \o <<" ">>
        End(i) == FirstFrom(i, Len(s), LAMBDA p : MatchAt(s, CloseTag(name), p))
    IN {SubSeq(s, i, End(i) + Len(CloseTag(name)) - 1) :
            i \in {p \in Occurrences(s, open) : End(p) > 0}}

\* C15: the paragraph pass inserts nothing between the <pre of a rendered
\* code block and its </pre>, nor inside a rendered list, table or
\* blockquote: every such element of the html it is given is in the html it
\* returns
C15_ParagraphsKeepBlocks ==
    [][mdPc = "paragraphs" =>
          \A name \in {"pre", "ul", "ol", "table", "blockquote"} :
              \A element \in ElementsOf(mdHtml, name) : Contains(mdHtml', element)]_vars


\* the lines the paragraph pass emits are the lines it is given, a given
\* line possibly behind an inserted paragraph open, and inserted lines that
\* are a paragraph close
IsInsertedClose(line) == line = CloseTag("p")

IsInsertedOpen(line) == StartsWith(line, OpenTag("p", mdStyle))

GivenLine(line) ==
    IF IsInsertedOpen(line)
        THEN SubSeq(line, Len(OpenTag("p", mdStyle)) + 1, Len(line))
        ELSE line

\* a given line is blank or block-level
ClosesParagraph(line) == Trim(line) = <<>> \/ isBlockElement(Trim(line))

\* a paragraph is open before emitted line j: the opens and closes inserted
\* before it are odd in number
OpenBefore(out, j) ==
    Cardinality({h \in 1..(j - 1) :
                    IsInsertedOpen(out[h]) \/ IsInsertedClose(out[h])}) % 2 = 1

ParagraphsWellFormed(given, out) ==
    LET kept == SelectSeq(out, LAMBDA line : ~IsInsertedClose(line))
    IN \* nothing but opens and closes is inserted
       /\ [k \in 1..Len(kept) |-> GivenLine(kept[k])] = given
       /\ \A j \in 1..Len(out) :
             IF IsInsertedClose(out[j])
               \* a close is inserted only on an open paragraph, before a
               \* blank or block-level line or at the end
               THEN /\ OpenBefore(out, j)
                    /\ (j = Len(out) \/ ClosesParagraph(out[j + 1]))
             ELSE IF ClosesParagraph(GivenLine(out[j]))
               \* no blank or block-level line while a paragraph is open
               THEN ~OpenBefore(out, j) /\ ~IsInsertedOpen(out[j])
               \* a paragraph opens exactly on a loose line, none being open
               ELSE IsInsertedOpen(out[j]) <=> ~OpenBefore(out, j)
       \* the last open is closed
       /\ ~OpenBefore(out, Len(out) + 1)

\* C16: over any sequence of lines, the paragraph pass opens a paragraph
\* exactly on a non-blank, non-block-level line met while none is open and
\* closes it before the next blank or block-level line or at the end, so
\* that opens and closes alternate, open first and close last, and no blank
\* or block-level line is emitted inside a paragraph
C16_ParagraphsAlternate ==
    [][mdPc = "paragraphs" =>
          ParagraphsWellFormed(Split(mdHtml, "\n"), Split(mdHtml', "\n"))]_vars

\* "a", a blank line, "b" and "c": two paragraphs were opened and closed
C16_Witness ==
    /\ mdPc = "returned"
    /\ mdInput = Chars("a\n\nb\nc")
    /\ Count(mdHtml, OpenTag("p", mdStyle)) = 2
    /\ Count(mdHtml, CloseTag("p")) = 2


---------------------------------------------------------------------------
(* The two styles *)

StyleBlocks ==
    {<<Backtick, Backtick, Backtick>>,
     Chars("# T"),
     Chars("**b** [t](u)"),
     <<Backtick, "c", Backtick>>,
     Chars("> q"),
     Chars("- a"),
     Chars("|[t](u|v)|\n|x|")}

StyleDocuments == {Join(q, <<"\n">>) : q \in SeqsUpTo(StyleBlocks, MaxMdBlocks)}

StyleInit ==
    /\ CliIdle
    /\ TokIdle
    /\ AuthIdle
    /\ MainIdle
    /\ EncIdle
    /\ TplIdle
    /\ mdPc = "codeBlocks"
    /\ mdInput \in StyleDocuments
    /\ mdStyle \in {"client", "labs"}
    /\ mdHtml = mdInput
    /\ mdTitle = Chars("Report")

SpecMdStyle == StyleInit /\ [][MdNext]_vars

\* s with the value of every style="..." attribute removed
WithoutStyleValues(s) ==
    ReplaceMatches(s,
        LAMBDA i : IF MatchAt(s, Chars("style=\""), i)
                     THEN FirstFrom(i + 7, Len(s), LAMBDA p : s[p] = "\"")
                     ELSE 0,
        LAMBDA i, j : Chars("style=\"\""))

OtherStyle == IF mdStyle = "client" THEN "labs" ELSE "client"

\* C17: the two styles give the same structure: the returned html is, once
\* the values of the style attributes are removed, the html that the other
\* style returns for the same md, and the titles are the same
C17_StylesSameStructure ==
    mdPc = "returned" =>
        /\ WithoutStyleValues(mdHtml)
             = WithoutStyleValues(markdownToEmailHtml(mdInput, OtherStyle).html)
        /\ mdTitle = markdownToEmailHtml(mdInput, OtherStyle).title


---------------------------------------------------------------------------
(* getEmailTemplate and applyTemplate                                      *)
(*                                                                         *)
(* The text of a template around its two placeholders is kept as three     *)
(* multi-character items; the placeholders are characters.                 *)

TemplateHead ==
    <<"<!DOCTYPE html>\n<html lang=\"en\">\n<head>\n  <meta charset=\"UTF-8\">\n  <meta name=\"viewport\" content=\"width=device-width, initial-scale=1.0\">\n  <title>">>

TemplateMiddle(style) ==
    IF style = "labs"
    THEN <<"</title>\n</head>\n<body style=\"margin: 0; padding: 20px; background-color: #e8e6df; font-family: -apple-system, BlinkMacSystemFont, 'Segoe UI', Roboto, Helvetica, Arial, sans-serif; color: #000000;\">\n  <table role=\"presentation\" cellspacing=\"0\" cellpadding=\"0\" border=\"0\" width=\"100%\" style=\"max-width: 680px; margin: 0 auto;\">\n    <tr>\n      <td style=\"background: #f3f2ea; padding: 40px; border: 1px solid #000000; box-shadow: 8px 8px 0px 0px rgba(0,0,0,0.1); color: #000000;\">\n        ">>
    ELSE <<"</title>\n</head>\n<body style=\"margin: 0; padding: 20px; background-color: #e8e6df; font-family: -apple-system, BlinkMacSystemFont, 'Segoe UI', Roboto, Helvetica, Arial, sans-serif;\">\n  <table role=\"presentation\" cellspacing=\"0\" cellpadding=\"0\" border=\"0\" width=\"100%\" style=\"max-width: 680px; margin: 0 auto;\">\n    <tr>\n      <td style=\"background: #faf9f6; padding: 40px; border: 1px solid #d4d3cf; border-radius: 8px;\">\n        ">>

TemplateTail ==
    <<"\n      </td>\n    </tr>\n  </table>\n</body>\n</html>">>

\* getEmailTemplate(style)
getEmailTemplate(style) ==
    TemplateHead \o Chars("{{TITLE}}") \o TemplateMiddle(style)
        \o Chars("{{CONTENT}}") \o TemplateTail


\* GetSubstitution of String.prototype.replace for a pattern without capture
\* groups matched at s[i..j]: in the replacement text "$$" stands for "$",
\* "$&" for the match, "$`" for the text before it, "$'" for the text after
GetSubstitution(s, i, j, replacement) ==
    ReplaceMatches(replacement,
        LAMBDA p : IF /\ replacement[p] = "$"
                      /\ p < Len(replacement)
                      /\ replacement[p + 1] \in {"$", "&", Backtick, "'"}
                   THEN p + 1 ELSE 0,
        LAMBDA p, q : CASE replacement[q] = "$" -> <<"$">>
                        [] replacement[q] = "&" -> SubSeq(s, i, j)
                        [] replacement[q] = Backtick -> SubSeq(s, 1, i - 1)
                        [] OTHER -> SubSeq(s, j + 1, Len(s)))

\* String.prototype.replace(pattern, replacement) with a string pattern: the
\* first occurrence only
StringReplace(s, pattern, replacement) ==
    LET i == FirstFrom(1, Len(s), LAMBDA p : MatchAt(s, pattern, p))
        j == i + Len(pattern) - 1
    IN IF i = 0 THEN s
       ELSE SubSeq(s, 1, i - 1) \o GetSubstitution(s, i, j, replacement)
              \o SubSeq(s, j + 1, Len(s))

\* applyTemplate(template, title, content)
applyTemplate(template, title, content) ==
    StringReplace(StringReplace(template, Chars("{{TITLE}}"), title),
                  Chars("{{CONTENT}}"), content)

TemplateTitles ==
    {Chars("Report"), Chars("Q&A"), Chars("{{CONTENT}}"), Chars("{{TITLE}}"),
     Chars("$&"), Chars("US$$"), Chars("$1")}

TemplateContents ==
    {Chars("<p>x</p>"), Chars("{{TITLE}}"), Chars("{{CONTENT}}"),
     Chars("<p>$&</p>"), Chars("<p>$'5'</p>"), Chars("<p>$$</p>"),
     <<"<", "p", ">", "$", Backtick, "<", "/", "p", ">">>, <<>>}

TemplateInit ==
    /\ CliIdle
    /\ TokIdle
    /\ AuthIdle
    /\ MainIdle
    /\ EncIdle
    /\ MdIdle
    /\ tplPc = "input"
    /\ templateStyle \in {"client", "labs"}
    /\ finalSubject \in TemplateTitles
    /\ contentHtml \in TemplateContents
    /\ finalHtml = <<>>

\* const finalHtml = applyTemplate(template, finalSubject, contentHtml)
ApplyTemplate ==
    /\ tplPc = "input"
    /\ finalHtml' = applyTemplate(getEmailTemplate(templateStyle), finalSubject,
                                  contentHtml)
    /\ tplPc' = "applied"
    /\ UNCHANGED <<mainVars, encVars, mdVars, cliVars, tokVars, authVars, templateStyle,
                   finalSubject, contentHtml>>

TemplateNext == ApplyTemplate

SpecTemplate == TemplateInit /\ [][TemplateNext]_vars

\* C18: applyTemplate is pure string substitution: the result is the
\* template with the title in the place of {{TITLE}} and the content in the
\* place of {{CONTENT}}, both verbatim, whatever they contain
C18_PureSubstitution ==
    tplPc = "applied" =>
        finalHtml = TemplateHead \o finalSubject \o TemplateMiddle(templateStyle)
                      \o contentHtml \o TemplateTail


---------------------------------------------------------------------------
(* The title *)

TitleBlocks ==
    {Chars("# T"), Chars("# U v"), Chars("## S"), Chars("#"), Chars("# "),
     Chars(" # X"), Chars("x"), <<Backtick, Backtick, Backtick>>}

TitleDocuments == {Join(q, <<"\n">>) : q \in SeqsUpTo(TitleBlocks, MaxMdBlocks)}

TitleInit ==
    /\ CliIdle
    /\ TokIdle
    /\ AuthIdle
    /\ MainIdle
    /\ EncIdle
    /\ TplIdle
    /\ mdPc = "codeBlocks"
    /\ mdInput \in TitleDocuments
    /\ mdStyle \in {"client", "labs"}
    /\ mdHtml = mdInput
    /\ mdTitle = Chars("Report")

SpecMdTitle == TitleInit /\ [][MdNext]_vars

\* line k of md is a level-1 heading: "# " and at least one more character
Heading1(k) ==
    /\ Len(MdLines[k]) >= 3
    /\ MdLines[k][1] = "#" /\ MdLines[k][2] = " "

\* C19: the title is the text after "# " of the first line of md that is a
\* level-1 heading, wherever that line is, and "Report" when md has none
C19_TitleFromFirstH1 ==
    mdPc # "codeBlocks" =>
        IF \E k \in 1..Len(MdLines) : Heading1(k)
        THEN \E k \in 1..Len(MdLines) :
                /\ Heading1(k)
                /\ \A h \in 1..(k - 1) : ~Heading1(h)
                /\ mdTitle = SubSeq(MdLines[k], 3, Len(MdLines[k]))
        ELSE mdTitle = Chars("Report")

\* md with two level-1 headings after a line of text: the title is the first
\* one's
C19_Witness ==
    /\ mdPc = "returned"
    /\ mdInput = Chars("x\n# U v\n# T")
    /\ mdTitle = Chars("U v")


---------------------------------------------------------------------------
(* Attachments of every known type *)

UpperChar(c) ==
    IF \E i \in 1..26 : LowerLetters[i] = c
        THEN UpperLetters[CHOOSE i \in 1..26 : LowerLetters[i] = c]
        ELSE c

ToUpperCase(s) == [i \in 1..Len(s) |-> UpperChar(s[i])]

\* a path for each known extension, in lower case and in upper case, and
\* paths with an extension that is not known or with none
MimePaths ==
    {Chars("f") \o Chars(mimeTypes[i][1]) : i \in 1..Len(mimeTypes)}
    \cup {Chars("F") \o ToUpperCase(Chars(mimeTypes[i][1])) : i \in 1..Len(mimeTypes)}
    \cup {Chars("README"), Chars("a.bin"), Chars(".pdf"), Chars("x.tar.gz"),
          Chars("d.zip/notes"), Chars("a.pdf."), Chars("b.Json")}

MimeInit ==
    /\ command \in {"send", "draft"}
    /\ flags \in [to : {Chars("a@b.c")}, subject : {Chars("Hi")}, body : {Chars("hi")},
                  html : {Undefined, Chars("<b>hi</b>")},
                  attachment : MimePaths,
                  inline : {Undefined, Chars("Logo.PNG:logo")}]
    /\ pc = "main"
    /\ attachmentPaths = <<>>
    /\ inlineImagePaths = <<>>
    /\ batch = "none"
    /\ pending = {}
    /\ loaded = <<>>
    /\ readErrors = <<>>
    /\ completed = <<>>
    /\ attachments = <<>>
    /\ inlineImages = <<>>
    /\ ts = <<>>
    /\ raw = <<>>
    /\ providerCalls = <<>>
    /\ stdout = <<>>
    /\ exitCode = -1
    /\ CliIdle
    /\ TokIdle
    /\ AuthIdle
    /\ EncIdle
    /\ MdIdle
    /\ TplIdle

SpecMime == MimeInit /\ [][Next]_vars

\* two characters that are the same letter, in either case, or the same
\* character
SameIgnoringCase(a, b) ==
    a = b \/ \E k \in 1..26 : {a, b} = {UpperLetters[k], LowerLetters[k]}

\* the extension of a path: from the last "." of its last segment, when that
\* "." is not the segment's first character
ExtensionOf(filePath) ==
    LET name == SubSeq(filePath, LastIndexOf(filePath, "/") + 1, Len(filePath))
        dot == LastIndexOf(name, ".")
    IN IF dot > 1 THEN SubSeq(name, dot, Len(name)) ELSE <<>>

\* the rows of the table whose extension is the path's, case ignored
KnownRows(filePath) ==
    {i \in 1..Len(mimeTypes) :
        /\ Len(ExtensionOf(filePath)) = Len(Chars(mimeTypes[i][1]))
        /\ \A k \in 1..Len(ExtensionOf(filePath)) :
              SameIgnoringCase(ExtensionOf(filePath)[k], Chars(mimeTypes[i][1])[k])}

TypeByTable(filePath) ==
    IF KnownRows(filePath) = {} THEN Chars("application/octet-stream")
    ELSE Chars(mimeTypes[CHOOSE i \in KnownRows(filePath) : TRUE][2])

\* the types in the Content-Type headers of the file parts of a message, in
\* the order of the parts
PartTypes(msg) ==
    LET key == Chars("Content-Type: ")
        mark == Chars("; name=\"")
        hits == SelectSeq(LinesOf(msg),
                          LAMBDA line : StartsWith(line, key) /\ Contains(line, mark))
    IN [k \in 1..Len(hits) |->
          SubSeq(hits[k], Len(key) + 1,
                 (CHOOSE p \in Occurrences(hits[k], mark) :
                      \A q \in Occurrences(hits[k], mark) : p <= q) - 1)]

\* C20: the table has 14 extensions; every file part of the assembled
\* message has in its Content-Type header the table's type for the
\* extension of its path, case ignored, and application/octet-stream when
\* the extension is not in the table or the path has none
C20_MimeTypeByExtension ==
    /\ Len(mimeTypes) = 14
    /\ Assembled =>
          PartTypes(Decoded) =
              (IF InputShape \in {1, 4}
                 THEN [i \in 1..Len(inlineImagePaths) |->
                          TypeByTable(inlineImagePaths[i].path)]
                 ELSE <<>>)
              \o (IF InputShape \in {1, 2, 3}
                    THEN [i \in 1..Len(attachmentPaths) |-> TypeByTable(attachmentPaths[i])]
                    ELSE <<>>)

\* F.PDF was attached: its part says application/pdf
C20_Witness ==
    /\ Assembled
    /\ attachmentPaths = <<Chars("F.PDF")>>
    /\ Contains(Decoded, Chars("Content-Type: application/pdf; name=\"F.PDF\""))

---------------------------------------------------------------------------
(* The command line: parseArgs, main's dispatch and the send-md command    *)
(*                                                                         *)
(* args[0] is kept as a name, the other arguments are strings.             *)

\* the flags main reads for the commands of this model
FlagNames ==
    {"to", "subject", "body", "html", "attachment", "inline", "file", "style",
     "draft"}

\* arg.startsWith("--")
IsFlagArg(arg) == MatchAt(arg, <<"-", "-">>, 1)

\* const [key, ...valueParts] = arg.slice(2).split("=")
ArgKey(arg) == Split(SubSeq(arg, 3, Len(arg)), "=")[1]

\* valueParts.join("=") || "true"
ArgValue(arg) ==
    LET valueParts == Tail(Split(SubSeq(arg, 3, Len(arg)), "="))
    IN IF Join(valueParts, <<"=">>) = <<>>
         THEN Chars("true") ELSE Join(valueParts, <<"=">>)

\* parseArgs(args): a later argument with the same key overwrites an earlier
\* one; flags[name] of a key that was not given is undefined
parseArgs(args) ==
    [flags |->
        [name \in FlagNames |->
            LET given == {i \in 1..Len(args) :
                            IsFlagArg(args[i]) /\ ArgKey(args[i]) = Chars(name)}
            IN IF given = {} THEN Undefined
               ELSE ArgValue(args[CHOOSE i \in given : \A j \in given : j <= i])],
     positional |-> SelectSeq(args, LAMBDA arg : ~IsFlagArg(arg))]

\* !x for a string or undefined
Falsy(x) == x = Undefined \/ x = <<>>

\* the commands of main's switch that the model follows
Commands == {"send", "draft", "send-md", "labels"}

\* the characters of a string whose generated text is kept in
\* multi-character items
Characters(s) ==
    Concat([i \in 1..Len(s) |->
               IF s[i] \in {"\n", "\r", "\t", "U+00E9", "U+FFFD"} \/ Len(s[i]) = 1
                 THEN <<s[i]>> ELSE Chars(s[i])])

\* at most one argument out of S
Optional(S) == {<<>>} \cup {<<arg>> : arg \in S}

ToArgs == Optional({Chars("--to=a@b.c"), Chars("--to=")})
SubjectArgs == Optional({Chars("--subject=Hi"), Chars("--subject=")})
BodyArgs == Optional({Chars("--body=hi"), Chars("--body=")})
HtmlArgs == Optional({Chars("--html=<b>hi</b>")})
AttachmentArgs == Optional({Chars("--attachment=a.pdf")})
FileArgs == Optional({Chars("--file=r.md"), Chars("--file=")})
StyleArgs == Optional({Chars("--style=labs")})
MdSubjectArgs ==
    Optional({Chars("--subject=Hi"), Chars("--subject=$&"), Chars("--subject=")})
DraftArgs == Optional({Chars("--draft"), Chars("--draft=false")})

\* process.argv.slice(2) of the runs
CliArgs ==
    {<<>>, <<"help">>, <<"bogus">>, <<"bogus", Chars("--to=a@b.c")>>,
     <<"labels">>}
    \cup {<<name>> \o to \o subject \o body \o html \o attachment :
            name \in {"send", "draft"}, to \in ToArgs, subject \in SubjectArgs,
            body \in BodyArgs, html \in HtmlArgs, attachment \in AttachmentArgs}
    \cup {<<"send-md">> \o to \o file \o draft :
            to \in ToArgs, file \in FileArgs, draft \in DraftArgs}
    \cup {<<"send-md", Chars("--to=a@b.c"), Chars("--file=r.md")>>
            \o style \o subject \o draft :
            style \in StyleArgs, subject \in MdSubjectArgs, draft \in DraftArgs}

\* what fs.readFile(mdPath, "utf-8") can deliver
MarkdownFiles == {Chars("# T\nx"), Chars("x\n# U v\n# T"), Chars("**b**")}

CliInit ==
    /\ argv \in CliArgs
    /\ command = ""
    /\ flags = [name \in FlagNames |-> Undefined]
    /\ pc = "start"
    /\ attachmentPaths = <<>>
    /\ inlineImagePaths = <<>>
    /\ batch = "none"
    /\ pending = {}
    /\ loaded = <<>>
    /\ readErrors = <<>>
    /\ completed = <<>>
    /\ attachments = <<>>
    /\ inlineImages = <<>>
    /\ ts = <<>>
    /\ raw = <<>>
    /\ providerCalls = <<>>
    /\ stdout = <<>>
    /\ exitCode = -1
    /\ tokenLoads = 0
    /\ fileReads = <<>>
    /\ markdown = <<>>
    /\ TokIdle
    /\ AuthIdle
    /\ EncIdle
    /\ MdIdle
    /\ TplIdle

\* an unknown command is not reported
Start_UnknownSilent ==
    /\ pc = "start"
    /\ command' = IF argv = <<>> THEN "" ELSE Head(argv)
    /\ flags' = parseArgs(IF argv = <<>> THEN <<>> ELSE Tail(argv)).flags
    /\ IF command' \in {"", "help", "--help"}
         THEN /\ pc' = "exited"
              /\ exitCode' = 0
              /\ UNCHANGED stdout
       ELSE IF command' \notin Commands
         THEN /\ pc' = "exited"
              /\ exitCode' = 1
              /\ UNCHANGED stdout
       ELSE /\ pc' = "main"
            /\ UNCHANGED <<stdout, exitCode>>
    /\ UNCHANGED <<attachmentPaths, inlineImagePaths, batch, pending, loaded,
                   readErrors, completed, attachments, inlineImages, ts, raw, providerCalls,
                   encVars, mdVars, tplVars, argv, tokenLoads, fileReads,
                   markdown, tokVars, authVars>>

\* main from its first line to the switch: the arguments are parsed; no
\* command or help prints the usage text and exits with 0, a command that is
\* no case of the switch prints a failure result and exits with 1
Start ==
    /\ pc = "start"
    /\ command' = IF argv = <<>> THEN "" ELSE Head(argv)
    /\ flags' = parseArgs(IF argv = <<>> THEN <<>> ELSE Tail(argv)).flags
    /\ IF command' \in {"", "help", "--help"}
         THEN /\ pc' = "exited"
              /\ exitCode' = 0
              /\ UNCHANGED stdout
       ELSE IF command' \notin Commands
         THEN /\ stdout' = Append(stdout, [success |-> FALSE,
                                 error |-> [kind |-> "unknown", path |-> <<>>]])
              /\ pc' = "exited"
              /\ exitCode' = 1
       ELSE /\ pc' = "main"
            /\ UNCHANGED <<stdout, exitCode>>
    /\ UNCHANGED <<attachmentPaths, inlineImagePaths, batch, pending, loaded,
                   readErrors, completed, attachments, inlineImages, ts, raw, providerCalls,
                   encVars, mdVars, tplVars, argv, tokenLoads, fileReads,
                   markdown, tokVars, authVars>>

\* main, case "labels", up to `await getGmailClient()`
MainLabels ==
    /\ pc = "main"
    /\ command = "labels"
    /\ pc' = "getGmailClient"
    /\ UNCHANGED <<command, flags, attachmentPaths, inlineImagePaths, batch,
                   pending, loaded, readErrors, completed, attachments, inlineImages, ts, raw,
                   providerCalls, stdout, exitCode, encVars, mdVars, tplVars,
                   cliVars, tokVars, authVars>>

\* getGmailClient resolves: listLabels calls the provider
GetGmailClientLabels ==
    /\ pc = "getGmailClient"
    /\ command = "labels"
    /\ tokenLoads' = tokenLoads + 1
    /\ providerCalls' = Append(providerCalls, [api |-> "labels.list", raw |-> <<>>])
    /\ pc' = "awaitProvider"
    /\ UNCHANGED <<command, flags, attachmentPaths, inlineImagePaths, batch,
                   pending, loaded, readErrors, completed, attachments, inlineImages, ts, raw,
                   stdout, exitCode, encVars, mdVars, tplVars, argv, fileReads,
                   markdown, tokVars, authVars>>

\* main, case "send-md", up to `await fs.readFile(mdPath, "utf-8")`
MainSendMd ==
    /\ pc = "main"
    /\ command = "send-md"
    /\ IF Falsy(flags.to) \/ Falsy(flags.file)
         THEN /\ Fail([kind |-> "usage", path |-> <<>>])
              /\ UNCHANGED fileReads
         ELSE /\ fileReads' = Append(fileReads, flags.file)
              /\ pc' = "awaitMarkdown"
              /\ UNCHANGED <<stdout, exitCode>>
    /\ UNCHANGED <<command, flags, attachmentPaths, inlineImagePaths, batch,
                   pending, loaded, readErrors, completed, attachments, inlineImages, ts, raw,
                   providerCalls, encVars, mdVars, tplVars, argv, tokenLoads,
                   markdown, tokVars, authVars>>

\* fs.readFile resolves with the file's text: main takes the style and calls
\* markdownToEmailHtml(markdown, templateStyle), which runs pass by pass
MarkdownRead(content) ==
    /\ pc = "awaitMarkdown"
    /\ markdown' = content
    /\ templateStyle' = IF flags.style = Chars("labs") THEN "labs" ELSE "client"
    /\ mdInput' = content
    /\ mdStyle' = templateStyle'
    /\ mdHtml' = content
    /\ mdTitle' = Chars("Report")
    /\ mdPc' = "codeBlocks"
    /\ pc' = "rendering"
    /\ UNCHANGED <<command, flags, attachmentPaths, inlineImagePaths, batch,
                   pending, loaded, readErrors, completed, attachments, inlineImages, ts, raw,
                   providerCalls, stdout, exitCode, encVars, tplPc, finalSubject,
                   contentHtml, finalHtml, argv, tokenLoads, fileReads, tokVars,
                   authVars>>

\* the title goes before the --subject value
Rendered_TitleFirst ==
    /\ pc = "rendering"
    /\ mdPc = "returned"
    /\ contentHtml' = mdHtml
    /\ finalSubject' = IF Falsy(mdTitle) THEN flags.subject ELSE mdTitle
    /\ finalHtml' = applyTemplate(getEmailTemplate(templateStyle), finalSubject',
                                  contentHtml')
    /\ tplPc' = "applied"
    /\ pc' = "getGmailClient"
    /\ UNCHANGED <<command, flags, attachmentPaths, inlineImagePaths, batch,
                   pending, loaded, readErrors, completed, attachments, inlineImages, ts, raw,
                   providerCalls, stdout, exitCode, encVars, mdVars, templateStyle,
                   cliVars, tokVars, authVars>>

\* markdownToEmailHtml has returned { html: contentHtml, title }: main takes
\* the subject, applies the template and goes on to `await getGmailClient()`
Rendered ==
    /\ pc = "rendering"
    /\ mdPc = "returned"
    /\ contentHtml' = mdHtml
    /\ finalSubject' = IF Falsy(flags.subject) THEN mdTitle ELSE flags.subject
    /\ finalHtml' = applyTemplate(getEmailTemplate(templateStyle), finalSubject',
                                  contentHtml')
    /\ tplPc' = "applied"
    /\ pc' = "getGmailClient"
    /\ UNCHANGED <<command, flags, attachmentPaths, inlineImagePaths, batch,
                   pending, loaded, readErrors, completed, attachments, inlineImages, ts, raw,
                   providerCalls, stdout, exitCode, encVars, mdVars, templateStyle,
                   cliVars, tokVars, authVars>>

\* fs.readFile rejects: main's catch calls fail
MarkdownReadError ==
    /\ pc = "awaitMarkdown"
    /\ Fail([kind |-> "ENOENT", path |-> flags.file])
    /\ UNCHANGED <<command, flags, attachmentPaths, inlineImagePaths, batch,
                   pending, loaded, readErrors, completed, attachments, inlineImages, ts, raw,
                   providerCalls, encVars, mdVars, tplVars, cliVars, tokVars,
                   authVars>>

\* --draft is not looked at
GetGmailClientSendMd_AlwaysSends ==
    /\ pc = "getGmailClient"
    /\ command = "send-md"
    /\ tokenLoads' = tokenLoads + 1
    /\ \E now \in Timestamps :
        /\ ts' = now
        /\ raw' = createRawMessage(flags.to, finalSubject, markdown, Undefined,
                                   Characters(finalHtml), <<>>, <<>>, now)
    /\ providerCalls' = Append(providerCalls, [api |-> "messages.send", raw |-> raw'])
    /\ pc' = "awaitProvider"
    /\ UNCHANGED <<command, flags, attachmentPaths, inlineImagePaths, batch,
                   pending, loaded, readErrors, completed, attachments, inlineImages, stdout,
                   exitCode, encVars, mdVars, tplVars, argv, fileReads, markdown,
                   tokVars, authVars>>

\* getGmailClient resolves in send-md: createDraft or sendMessage is called
\* with the markdown as body and finalHtml as html and no files, so it goes
\* straight to createRawMessage and the provider call
GetGmailClientSendMd ==
    /\ pc = "getGmailClient"
    /\ command = "send-md"
    /\ tokenLoads' = tokenLoads + 1
    /\ \E now \in Timestamps :
        /\ ts' = now
        /\ raw' = createRawMessage(flags.to, finalSubject, markdown, Undefined,
                                   Characters(finalHtml), <<>>, <<>>, now)
    /\ providerCalls' = Append(providerCalls,
          [api |-> IF flags.draft # Undefined THEN "drafts.create" ELSE "messages.send",
           raw |-> raw'])
    /\ pc' = "awaitProvider"
    /\ UNCHANGED <<command, flags, attachmentPaths, inlineImagePaths, batch,
                   pending, loaded, readErrors, completed, attachments, inlineImages, stdout,
                   exitCode, encVars, mdVars, tplVars, argv, fileReads, markdown,
                   tokVars, authVars>>

CliNext ==
    \/ Start
    \/ Main
    \/ MainLabels
    \/ MainSendMd
    \/ \E content \in MarkdownFiles : MarkdownRead(content)
    \/ MarkdownReadError
    \/ MdNext
    \/ Rendered
    \/ GetGmailClient
    \/ GetGmailClientLabels
    \/ GetGmailClientSendMd
    \/ GetGmailClientError
    \/ \E i \in 1..(MaxFiles + 1) : ReadOk(i)
    \/ \E i \in 1..(MaxFiles + 1) : ReadError(i)
    \/ ProviderOk
    \/ ProviderError

SpecCli == CliInit /\ [][CliNext]_vars


---------------------------------------------------------------------------
(* Claims about the command line *)

\* the command line gives flag `name` a value: it holds an argument
\* --name=v with v not empty
HasValue(name) ==
    \E i \in 2..Len(argv) :
        /\ MatchAt(argv[i], Chars("--") \o Chars(name) \o <<"=">>, 1)
        /\ Len(argv[i]) > Len(name) + 3

\* the command line holds the flag, with or without a value
OnCommandLine(name) ==
    \E i \in 2..Len(argv) : IsFlagArg(argv[i]) /\ ArgKey(argv[i]) = Chars(name)

\* the flags the command requires
RequiredFlags ==
    CASE command \in {"send", "draft"} -> {"to", "subject", "body"}
      [] command = "send-md" -> {"to", "file"}
      [] OTHER -> {}

\* the run has ended with the usage failure and nothing else has happened: no
\* token loaded, no file read, no provider call, no message assembled
FailedBeforeAnything ==
    /\ pc = "exited"
    /\ exitCode = 1
    /\ stdout = <<[success |-> FALSE, error |-> [kind |-> "usage", path |-> <<>>]]>>
    /\ tokenLoads = 0
    /\ fileReads = <<>>
    /\ batch = "none" /\ readErrors = <<>>
    /\ providerCalls = <<>>
    /\ raw = <<>>

\* C21: send and draft with any of --to, --subject, --body missing or empty,
\* and send-md with --to or --file missing or empty, end with a failure
\* result and exit code 1 before any token is loaded, any file is read and
\* any provider call is made; no message or draft is created
C21_MissingFlagsFailFirst ==
    (pc \notin {"start", "main"} /\ \E name \in RequiredFlags : ~HasValue(name))
        => FailedBeforeAnything

\* the part of C21 that the code keeps: a required flag that is not on the
\* command line at all ends the run with the usage failure before anything
\* else happens
C21_AbsentFlagsFailFirst ==
    (pc \notin {"start", "main"} /\ \E name \in RequiredFlags : ~OnCommandLine(name))
        => FailedBeforeAnything

\* send-md without --file has ended with the usage failure
C21_AbsentWitness ==
    /\ command = "send-md"
    /\ OnCommandLine("to") /\ ~OnCommandLine("file")
    /\ FailedBeforeAnything

DraftAsked == OnCommandLine("draft")

\* the provider call send-md has to make
AskedCall == IF DraftAsked THEN "drafts.create" ELSE "messages.send"

\* C23: send-md with --draft calls drafts.create once and never
\* messages.send, send-md without --draft calls messages.send once and never
\* drafts.create: the run makes no other provider call than the asked one,
\* never more than one, and exactly one from the moment it has its client
C23_DraftFlagPicksCall ==
    command = "send-md" =>
        /\ \A k \in 1..Len(providerCalls) : providerCalls[k].api = AskedCall
        /\ Len(providerCalls) <= 1
        /\ (pc \in {"awaitProvider", "done"} \/ (pc = "exited" /\ tokenLoads = 1
              /\ stdout[1].error.kind = "provider"))
              => Len(providerCalls) = 1

\* send-md --draft has completed with one call of drafts.create
C23_Witness ==
    /\ command = "send-md"
    /\ DraftAsked
    /\ pc = "done"
    /\ Len(providerCalls) = 1
    /\ providerCalls[1].api = "drafts.create"

\* the title of the markdown: the text of its first level-1 heading, "Report"
\* when it has none
FirstHeadingOrReport ==
    IF \E k \in 1..Len(MdLines) : Heading1(k)
    THEN LET k == CHOOSE k \in 1..Len(MdLines) :
                    Heading1(k) /\ \A h \in 1..(k - 1) : ~Heading1(h)
         IN SubSeq(MdLines[k], 3, Len(MdLines[k]))
    ELSE Chars("Report")

\* the header lines of a message: its lines before the first empty one
HeaderLines(msg) ==
    LET L == LinesOf(msg)
        end == FirstFrom(1, Len(L), LAMBDA k : L[k] = <<>>)
    IN SubSeq(L, 1, IF end = 0 THEN Len(L) ELSE end - 1)

\* the values of the Subject headers of a message
SubjectHeaders(msg) ==
    LET H == HeaderLines(msg)
    IN {SubSeq(H[k], 10, Len(H[k])) :
          k \in {h \in 1..Len(H) : StartsWith(H[h], Chars("Subject: "))}}

---------------------------------------------------------------------------
(* Claims about the order of the parts of the assembled message *)

\* the positions of the lines of L that are exactly the line d
LinesAt(L, d) == Positions(L, LAMBDA k : L[k] = d)

\* the multipart a shape has at top level and the one nested in its first
\* part (none in shapes 3, 4 and 5)
Nesting(shape) ==
    CASE shape = 1 -> [outerKind |-> "mixed", outer |-> mixedBoundary(ts),
                       innerKind |-> "related", inner |-> relatedBoundary(ts)]
      [] shape = 2 -> [outerKind |-> "mixed", outer |-> mixedBoundary(ts),
                       innerKind |-> "alternative", inner |-> altBoundary(ts)]
      [] shape = 3 -> [outerKind |-> "mixed", outer |-> mixedBoundary(ts),
                       innerKind |-> "none", inner |-> <<>>]
      [] shape = 4 -> [outerKind |-> "related", outer |-> relatedBoundary(ts),
                       innerKind |-> "none", inner |-> <<>>]
      [] OTHER -> [outerKind |-> "alternative", outer |-> altBoundary(ts),
                   innerKind |-> "none", inner |-> <<>>]

\* C25: in every multipart shape the delimiter lines are well nested. The
\* top-level header declares the outermost boundary, whose closing delimiter
\* is the last line of the message and its only closing delimiter; every
\* part delimiter of a boundary comes before that boundary's closing
\* delimiter; in shapes 1 and 2 the first part of the mixed multipart
\* declares the inner boundary, every inner part delimiter comes after that
\* declaration, the one inner closing delimiter comes after them, and the
\* attachment parts of the mixed boundary, one per attachment, all come
\* after the inner closing delimiter
C25_PartsWellNested ==
    (Assembled /\ InputShape \in 1..5) =>
        LET L == LinesOf(Decoded)
            n == Nesting(InputShape)
            outerOpen == LinesAt(L, Opening(n.outer))
            outerClose == LinesAt(L, Closing(n.outer))
            innerOpen == LinesAt(L, Opening(n.inner))
            innerClose == LinesAt(L, Closing(n.inner))
        IN /\ L[4] = MultipartType(n.outerKind, n.outer)
           /\ outerClose = <<Len(L)>>
           /\ outerOpen # <<>>
           /\ \A i \in 1..Len(outerOpen) : 4 < outerOpen[i] /\ outerOpen[i] < outerClose[1]
           /\ n.innerKind # "none" =>
                /\ L[outerOpen[1] + 1] = MultipartType(n.innerKind, n.inner)
                /\ Len(innerClose) = 1
                /\ innerOpen # <<>>
                /\ \A i \in 1..Len(innerOpen) :
                       /\ outerOpen[1] + 1 < innerOpen[i]
                       /\ innerOpen[i] < innerClose[1]
                /\ Len(outerOpen) = 1 + Len(attachmentPaths)
                /\ \A i \in 2..Len(outerOpen) :
                       /\ innerClose[1] < outerOpen[i]
                       /\ StartsWith(L[outerOpen[i] + 2],
                                     Chars("Content-Disposition: attachment;"))
                /\ innerClose[1] < outerClose[1]

\* two attachments, HTML and two inline images: three related part
\* delimiters, the related closing delimiter, then two attachment parts
C25_Witness ==
    /\ Assembled
    /\ InputShape = 1
    /\ Len(attachmentPaths) = 2 /\ Len(inlineImagePaths) = 2
    /\ LET L == LinesOf(Decoded)
           inner == LinesAt(L, Opening(relatedBoundary(ts)))
           outer == LinesAt(L, Opening(mixedBoundary(ts)))
           close == LinesAt(L, Closing(relatedBoundary(ts)))
       IN /\ Len(inner) = 3 /\ Len(outer) = 3 /\ Len(close) = 1
          /\ outer[1] < inner[1] /\ inner[3] < close[1] /\ close[1] < outer[2]

\* the text/plain parts of a message: the line that follows each text/plain
\* Content-Type line and the empty line after it (the single-part message
\* of shape 6 has no such empty line and its text follows at once)
TextBodies(msg) ==
    LET L == LinesOf(msg)
        at == LinesAt(L, Chars("Content-Type: text/plain; charset=\"UTF-8\""))
    IN [k \in 1..Len(at) |->
          IF L[at[k] + 1] = <<>> THEN L[at[k] + 2] ELSE L[at[k] + 1]]

\* the Content-Type lines of the parts of boundary b: the line after each of
\* its part delimiters
TypesUnder(msg, b) ==
    LET L == LinesOf(msg)
        at == LinesAt(L, Opening(b))
    IN [k \in 1..Len(at) |-> L[at[k] + 1]]

\* C29: in shapes 2, 3, 5 and 6 the decoded message has exactly one
\* text/plain part and its content is the caller's body; in shapes 1 and 4
\* it has no text/plain part and no line that is the caller's body, and the
\* parts of the related boundary are the HTML part followed by one part per
\* inline image
C29_BodyOnceOrNever ==
    Assembled =>
        IF BodyIncluded(InputShape)
          THEN TextBodies(Decoded) = <<flags.body>>
          ELSE /\ TextBodies(Decoded) = <<>>
               /\ LinesAt(LinesOf(Decoded), flags.body) = <<>>
               /\ TypesUnder(Decoded, relatedBoundary(ts))
                    = <<Chars("Content-Type: text/html; charset=\"UTF-8\"")>>
                      \o [i \in 1..Len(inlineImagePaths) |->
                            Chars("Content-Type: ") \o ExpectedInline(i).mimeType
                              \o Chars("; name=\"") \o ExpectedInline(i).filename
                              \o Chars("\"")]

\* HTML and one inline image, no attachment, body "hi": the message is
\* multipart/related of two parts and the body is nowhere in it
C29_Witness ==
    /\ Assembled
    /\ InputShape = 4
    /\ flags.body = Chars("hi")
    /\ Len(inlineImagePaths) = 1
    /\ TextBodies(Decoded) = <<>>
    /\ Len(TypesUnder(Decoded, relatedBoundary(ts))) = 2

\* the file parts of a message with the given disposition, in order: the
\* file name of the Content-Disposition line and the content line
FileParts(msg, disposition) ==
    LET L == LinesOf(msg)
        key == Chars("Content-Disposition: ") \o Chars(disposition)
                 \o Chars("; filename=\"")
        at == Positions(L, LAMBDA k : StartsWith(L[k], key))
    IN [n \in 1..Len(at) |->
          [filename |-> SubSeq(L[at[n]], Len(key) + 1, Len(L[at[n]]) - 1),
           content |-> L[at[n] + 3]]]

\* what the part of a path holds: the base name and the encoded bytes
PartOf(filePath) ==
    [filename |-> Basename(filePath), content |-> base64Content(FileBytes(filePath))]

\* C30: whatever the order in which the reads completed, the attachment
\* parts of the assembled message are those of the caller's attachment
\* paths, one per path and in the caller's order, and in shapes 1 and 4 the
\* inline parts are those of the caller's inline-image paths, one per path
\* and in the caller's order (the other shapes carry no inline part)
C30_PartsInCallerOrder ==
    Assembled =>
        /\ FileParts(Decoded, "attachment")
             = [i \in 1..Len(attachmentPaths) |-> PartOf(attachmentPaths[i])]
        /\ FileParts(Decoded, "inline")
             = IF InputShape \in {1, 4}
                 THEN [i \in 1..Len(inlineImagePaths) |->
                          PartOf(inlineImagePaths[i].path)]
                 ELSE <<>>

\* two different attachments and two different inline images, each pair
\* read in the reverse of the caller's order: the parts are in the caller's
\* order
C30_Witness ==
    /\ Assembled
    /\ completed = << <<"attachments", 2>>, <<"attachments", 1>>,
                      <<"inline", 2>>, <<"inline", 1>> >>
    /\ attachmentPaths[1] # attachmentPaths[2]
    /\ inlineImagePaths[1] # inlineImagePaths[2]
    /\ HasHtmlIn
    /\ FileParts(Decoded, "attachment")
         = <<PartOf(attachmentPaths[1]), PartOf(attachmentPaths[2])>>
    /\ FileParts(Decoded, "inline")
         = <<PartOf(inlineImagePaths[1].path), PartOf(inlineImagePaths[2].path)>>

---------------------------------------------------------------------------
(* Inline markers across line breaks *)

LineBlocks ==
    {Chars("*a"), Chars("b*"),
     Chars("[t"), Chars("u](v)"),
     <<Backtick>> \o Chars("c"), Chars("d") \o <<Backtick>>,
     Chars("x")}

LineDocuments == {Join(q, <<"\n">>) : q \in SeqsUpTo(LineBlocks, MaxMdBlocks)}

LineInit ==
    /\ CliIdle
    /\ TokIdle
    /\ AuthIdle
    /\ MainIdle
    /\ EncIdle
    /\ TplIdle
    /\ mdPc = "codeBlocks"
    /\ mdInput \in LineDocuments
    /\ mdStyle \in {"client", "labs"}
    /\ mdHtml = mdInput
    /\ mdTitle = Chars("Report")

SpecMdLine == LineInit /\ [][MdNext]_vars

\* every element of html that starts with the text open ends with the text
\* close before the next line break
ElementsOnOneLine(html, open, close) ==
    \A p \in Occurrences(html, open) :
        LET q == FirstFrom(p, Len(html), LAMBDA k : MatchAt(html, close, k))
        IN /\ q > 0
           /\ \A k \in p..q : html[k] # "\n"

\* C26: no <em>, <a> or <code> element of the returned html spans a line
\* break
C26_InlineOnOneLine ==
    mdPc = "returned" =>
        /\ ElementsOnOneLine(mdHtml, OpenTag("em", mdStyle), CloseTag("em"))
        /\ ElementsOnOneLine(mdHtml, Chars("<a href=\""), CloseTag("a"))
        /\ ElementsOnOneLine(mdHtml, OpenTag("code", mdStyle), CloseTag("code"))

---------------------------------------------------------------------------
(* The token lookup: loadCredentials, findTokenPath and loadToken, as the  *)
(* commands check and profile run them                                     *)

\* getProjectTokenPath(), getGlobalTokenPath(); the working directory and the
\* configuration directory are written "." and "~/.config/gmail-skill"
ProjectTokenPath == Chars("./.claude/gmail-skill.local.json")
GlobalTokenPath == Chars("~/.config/gmail-skill/token.json")

\* findTokenPath's `return null`
Null == <<"null">>

FileStates == {"absent", "broken", "valid"}

\* the state of the token file at a path
TokenFileAt(filePath) ==
    IF filePath = ProjectTokenPath THEN projectToken ELSE globalToken

TokInit ==
    /\ command \in {"check", "profile"}
    /\ flags = <<>> /\ pc = "off"
    /\ attachmentPaths = <<>> /\ inlineImagePaths = <<>>
    /\ batch = "none" /\ pending = {} /\ loaded = <<>> /\ readErrors = <<>>
    /\ completed = <<>>
    /\ attachments = <<>> /\ inlineImages = <<>> /\ ts = <<>> /\ raw = <<>>
    /\ providerCalls = <<>> /\ stdout = <<>> /\ exitCode = -1
    /\ CliIdle
    /\ AuthIdle
    /\ EncIdle
    /\ MdIdle
    /\ TplIdle
    /\ tokPc = "loadCredentials"
    /\ credentialsFile \in FileStates
    /\ projectToken \in FileStates
    /\ globalToken \in FileStates
    /\ accessed = <<>>
    /\ tokenPath = <<>>
    /\ oauth2Client = <<>>

\* what the token steps leave alone
TokFrame ==
    UNCHANGED <<command, flags, pc, attachmentPaths, inlineImagePaths, batch, pending,
                loaded, readErrors, completed, attachments, inlineImages, ts, raw,
                providerCalls, encVars, mdVars, tplVars, cliVars, authVars,
                credentialsFile, projectToken, globalToken>>

\* fail(error) reached from the token steps, directly or through main's catch
TokFail(kind, filePath) ==
    /\ stdout' = Append(stdout, [success |-> FALSE,
                                 error |-> [kind |-> kind, path |-> filePath]])
    /\ exitCode' = 1
    /\ tokPc' = "exited"

\* loadToken's first line: loadCredentials returns the credentials, fails
\* when the file is not there, and throws when it cannot be used
LoadCredentials ==
    /\ tokPc = "loadCredentials"
    /\ IF credentialsFile = "valid"
         THEN /\ tokPc' = "accessProject"
              /\ UNCHANGED <<stdout, exitCode>>
         ELSE TokFail(IF credentialsFile = "absent" THEN "credentials not found"
                      ELSE "credentials", <<>>)
    /\ UNCHANGED <<accessed, tokenPath, oauth2Client>>
    /\ TokFrame

\* findTokenPath: a project-local file that is not accessible ends the lookup
AccessProject_NoFallback ==
    /\ tokPc = "accessProject"
    /\ accessed' = Append(accessed, ProjectTokenPath)
    /\ tokenPath' = IF projectToken # "absent" THEN ProjectTokenPath ELSE Null
    /\ tokPc' = "returned"
    /\ UNCHANGED <<oauth2Client, stdout, exitCode>>
    /\ TokFrame

\* findTokenPath: fs.access(projectPath), and the return when it succeeds
AccessProject ==
    /\ tokPc = "accessProject"
    /\ accessed' = Append(accessed, ProjectTokenPath)
    /\ IF projectToken # "absent"
         THEN /\ tokenPath' = ProjectTokenPath
              /\ tokPc' = "returned"
         ELSE /\ tokPc' = "accessGlobal"
              /\ UNCHANGED tokenPath
    /\ UNCHANGED <<oauth2Client, stdout, exitCode>>
    /\ TokFrame

\* findTokenPath: fs.access(globalPath), and the return either way
AccessGlobal ==
    /\ tokPc = "accessGlobal"
    /\ accessed' = Append(accessed, GlobalTokenPath)
    /\ tokenPath' = IF globalToken # "absent" THEN GlobalTokenPath ELSE Null
    /\ tokPc' = "returned"
    /\ UNCHANGED <<oauth2Client, stdout, exitCode>>
    /\ TokFrame

\* loadToken after findTokenPath: fail on null, otherwise read and parse the
\* token file and build the client
LoadTokenRest ==
    /\ tokPc = "returned"
    /\ oauth2Client = <<>>
    /\ IF tokenPath = Null
         THEN /\ TokFail("token not found", ProjectTokenPath)
              /\ UNCHANGED oauth2Client
         ELSE IF TokenFileAt(tokenPath) = "valid"
                THEN /\ oauth2Client' = tokenPath
                     /\ tokPc' = "getProfile"
                     /\ UNCHANGED <<stdout, exitCode>>
                ELSE /\ TokFail("failed to load token", tokenPath)
                     /\ UNCHANGED oauth2Client
    /\ UNCHANGED <<accessed, tokenPath>>
    /\ TokFrame

\* getProfile resolves: profile prints its result, check looks the token
\* path up again
GetProfileOk ==
    /\ tokPc = "getProfile"
    /\ IF command = "profile"
         THEN /\ stdout' = Append(stdout, [success |-> TRUE, data |-> <<>>])
              /\ exitCode' = 0
              /\ tokPc' = "done"
         ELSE /\ tokPc' = "accessProject"
              /\ UNCHANGED <<stdout, exitCode>>
    /\ UNCHANGED <<accessed, tokenPath, oauth2Client>>
    /\ TokFrame

\* getProfile rejects: main's catch calls fail
GetProfileError ==
    /\ tokPc = "getProfile"
    /\ TokFail("provider", <<>>)
    /\ UNCHANGED <<accessed, tokenPath, oauth2Client>>
    /\ TokFrame

\* check after its own findTokenPath: it prints the path
CheckOutput ==
    /\ tokPc = "returned"
    /\ oauth2Client # <<>>
    /\ stdout' = Append(stdout, [success |-> TRUE, data |-> tokenPath])
    /\ exitCode' = 0
    /\ tokPc' = "done"
    /\ UNCHANGED <<accessed, tokenPath, oauth2Client>>
    /\ TokFrame

TokNext ==
    \/ LoadCredentials
    \/ AccessProject
    \/ AccessGlobal
    \/ LoadTokenRest
    \/ GetProfileOk
    \/ GetProfileError
    \/ CheckOutput

SpecToken == TokInit /\ [][TokNext]_vars

\* the fs.access calls of the findTokenPath call that returned last
LastLookup ==
    IF Len(accessed) >= 2 /\ accessed[Len(accessed) - 1] = ProjectTokenPath
                          /\ accessed[Len(accessed)] = GlobalTokenPath
      THEN <<ProjectTokenPath, GlobalTokenPath>>
      ELSE <<accessed[Len(accessed)]>>

\* C27: when findTokenPath has returned, its value is the project-local path
\* if that file is accessible (the global file is then not even looked at),
\* the global path if only the global file is accessible, and null if
\* neither is; a client is only ever built from a path that was found, and
\* once loadToken's lookup has returned null the run is over with a failure
\* result, exit code 1 and no client
C27_ProjectThenGlobalThenNull ==
    /\ tokPc = "returned" =>
          tokenPath = (IF projectToken # "absent" THEN ProjectTokenPath
                       ELSE IF globalToken # "absent" THEN GlobalTokenPath
                       ELSE Null)
    /\ (tokPc = "returned" /\ projectToken # "absent") =>
          LastLookup = <<ProjectTokenPath>>
    /\ oauth2Client # <<>> => oauth2Client \in {ProjectTokenPath, GlobalTokenPath}
    /\ (tokenPath = Null /\ tokPc # "returned") =>
          /\ oauth2Client = <<>>
          /\ tokPc = "exited"
          /\ exitCode = 1
          /\ stdout = <<[success |-> FALSE,
                         error |-> [kind |-> "token not found",
                                    path |-> ProjectTokenPath]]>>

\* both token files are there and valid: the lookup looked at the
\* project-local file only and the client carries its token
C27_Witness ==
    /\ projectToken = "valid" /\ globalToken = "valid"
    /\ tokPc = "getProfile"
    /\ accessed = <<ProjectTokenPath>>
    /\ tokenPath = ProjectTokenPath
    /\ oauth2Client = ProjectTokenPath

---------------------------------------------------------------------------
(* The auth command: performAuth and its callback promise *)

\* the number of callback requests a run receives
MaxRequests == 3

\* url.searchParams.get: null when the parameter is not there, and the empty
\* string when it is empty
CodeParams == {Null, <<>>, Chars("c1"), Chars("c2")}
ErrorParams == {Null, <<>>, Chars("access_denied")}

\* what tokens.refresh_token can be
RefreshTokens == {Undefined, Chars("rt")}

\* `if (error)`, `if (code)`, `!tokens.refresh_token`
Truthy(x) == x # Null /\ x # Undefined /\ x # <<>>

\* the expiry of the timer as an entry of events
TimerExpiry == [kind |-> "timer", code |-> Null, error |-> Null, status |-> 0]

AuthInit ==
    /\ command = "auth"
    /\ flags = <<>> /\ pc = "off"
    /\ attachmentPaths = <<>> /\ inlineImagePaths = <<>>
    /\ batch = "none" /\ pending = {} /\ loaded = <<>> /\ readErrors = <<>>
    /\ completed = <<>>
    /\ attachments = <<>> /\ inlineImages = <<>> /\ ts = <<>> /\ raw = <<>>
    /\ providerCalls = <<>> /\ stdout = <<>> /\ exitCode = -1
    /\ CliIdle
    /\ EncIdle
    /\ MdIdle
    /\ TplIdle
    /\ tokPc = "off"
    /\ credentialsFile \in FileStates
    /\ projectToken \in {"absent", "valid"}
    /\ globalToken = "absent"
    /\ accessed = <<>> /\ tokenPath = <<>> /\ oauth2Client = <<>>
    /\ authPc = "loadCredentials"
    /\ promise = "pending"
    /\ settled = <<>>
    /\ timer = "off"
    /\ server = "off"
    /\ events = <<>>
    /\ gitignore \in {"absent", "without", "with"}
    /\ tokens = <<>>
    /\ exchanged = <<>>
    /\ tokenFile = <<>>

\* what the steps of the auth command leave alone
AuthFrame ==
    UNCHANGED <<command, flags, pc, attachmentPaths, inlineImagePaths, batch, pending,
                loaded, readErrors, completed, attachments, inlineImages, ts, raw,
                providerCalls, encVars, mdVars, tplVars, cliVars, tokPc,
                credentialsFile, globalToken, accessed, tokenPath, oauth2Client>>

\* fail(error) reached from performAuth, directly or through main's catch
AuthFail(kind) ==
    /\ stdout' = Append(stdout, [success |-> FALSE,
                                 error |-> [kind |-> kind, path |-> <<>>]])
    /\ exitCode' = 1
    /\ authPc' = "exited"

\* the process is running and its event loop can take a request or the timer
Alive == authPc \in {"waiting", "exchange", "writing", "done"}

\* performAuth's first line
AuthLoadCredentials ==
    /\ authPc = "loadCredentials"
    /\ IF credentialsFile = "valid"
         THEN /\ authPc' = "prepare"
              /\ UNCHANGED <<stdout, exitCode>>
         ELSE AuthFail(IF credentialsFile = "absent" THEN "credentials not found"
                       ELSE "credentials")
    /\ UNCHANGED <<promise, settled, timer, server, events, gitignore, tokens,
                   exchanged, tokenFile, projectToken>>
    /\ AuthFrame

\* fs.mkdir and ensureGitignore succeed; the client and the promise are
\* made: the server listens and the timer is armed
AuthPrepare ==
    /\ authPc = "prepare"
    /\ gitignore' = "with"
    /\ server' = "listening"
    /\ timer' = "armed"
    /\ authPc' = "waiting"
    /\ UNCHANGED <<promise, settled, events, tokens, exchanged, tokenFile,
                   projectToken, stdout, exitCode>>
    /\ AuthFrame

\* fs.mkdir or ensureGitignore rejects: main's catch calls fail
AuthPrepareError ==
    /\ authPc = "prepare"
    /\ AuthFail("prepare")
    /\ UNCHANGED <<promise, settled, timer, server, events, gitignore, tokens,
                   exchanged, tokenFile, projectToken>>
    /\ AuthFrame

\* the request handler of the callback server, for a request whose URL has
\* the given code and error parameters. A reject while the promise is
\* pending makes performAuth throw and main's catch call fail; a resolve
\* makes performAuth go on to oauth2Client.getToken(code)
Request(code, error) ==
    /\ Alive
    /\ server # "off"
    /\ Len(SelectSeq(events, LAMBDA e : e.kind = "request")) < MaxRequests
    /\ events' = Append(events,
          [kind |-> "request", code |-> code, error |-> error,
           status |-> IF Truthy(error) THEN 400 ELSE IF Truthy(code) THEN 200 ELSE 404])
    /\ IF Truthy(error)
         THEN /\ server' = "closed"
              /\ settled' = Append(settled, [call |-> "reject", value |-> error])
              /\ IF promise = "pending"
                   THEN /\ promise' = "rejected"
                        /\ AuthFail("callback")
                   ELSE UNCHANGED <<promise, stdout, exitCode, authPc>>
              /\ UNCHANGED exchanged
         ELSE IF Truthy(code)
           THEN /\ server' = "closed"
                /\ settled' = Append(settled, [call |-> "resolve", value |-> code])
                /\ IF promise = "pending"
                     THEN /\ promise' = "resolved"
                          /\ exchanged' = Append(exchanged, code)
                          /\ authPc' = "exchange"
                     ELSE UNCHANGED <<promise, exchanged, authPc>>
                /\ UNCHANGED <<stdout, exitCode>>
           ELSE UNCHANGED <<server, settled, promise, exchanged, authPc, stdout,
                            exitCode>>
    /\ UNCHANGED <<timer, gitignore, tokens, tokenFile, projectToken>>
    /\ AuthFrame

\* the expiry of the timer rejects whatever happened before
Timeout_Overrides ==
    /\ Alive
    /\ timer = "armed"
    /\ timer' = "fired"
    /\ events' = Append(events, TimerExpiry)
    /\ server' = "closed"
    /\ settled' = Append(settled, [call |-> "reject", value |-> Chars("timeout")])
    /\ promise' = "rejected"
    /\ AuthFail("timeout")
    /\ UNCHANGED <<gitignore, tokens, exchanged, tokenFile, projectToken>>
    /\ AuthFrame

\* the callback of setTimeout(..., 300000); the timer is never cleared
Timeout ==
    /\ Alive
    /\ timer = "armed"
    /\ timer' = "fired"
    /\ events' = Append(events, TimerExpiry)
    /\ server' = "closed"
    /\ settled' = Append(settled, [call |-> "reject", value |-> Chars("timeout")])
    /\ IF promise = "pending"
         THEN /\ promise' = "rejected"
              /\ AuthFail("timeout")
         ELSE UNCHANGED <<promise, stdout, exitCode, authPc>>
    /\ UNCHANGED <<gitignore, tokens, exchanged, tokenFile, projectToken>>
    /\ AuthFrame

\* the server cannot listen (the port is taken): its error event has no
\* listener and ends the process
ListenError ==
    /\ authPc = "waiting"
    /\ events = <<>>
    /\ authPc' = "crashed"
    /\ server' = "closed"
    /\ exitCode' = 1
    /\ UNCHANGED <<promise, settled, timer, events, gitignore, tokens, exchanged,
                   tokenFile, projectToken, stdout>>
    /\ AuthFrame

\* oauth2Client.getToken(code) resolves with tokens; without a refresh_token
\* performAuth calls fail
GetToken(refresh) ==
    /\ authPc = "exchange"
    /\ tokens' = refresh
    /\ IF Truthy(refresh)
         THEN /\ authPc' = "writing"
              /\ UNCHANGED <<stdout, exitCode>>
         ELSE AuthFail("no refresh token")
    /\ UNCHANGED <<promise, settled, timer, server, events, gitignore, exchanged,
                   tokenFile, projectToken>>
    /\ AuthFrame

\* oauth2Client.getToken(code) rejects: main's catch calls fail
GetTokenError ==
    /\ authPc = "exchange"
    /\ AuthFail("exchange")
    /\ UNCHANGED <<promise, settled, timer, server, events, gitignore, tokens,
                   exchanged, tokenFile, projectToken>>
    /\ AuthFrame

\* fs.writeFile(tokenPath, ...) succeeds; main prints the success result
WriteToken ==
    /\ authPc = "writing"
    /\ tokenFile' = Append(tokenFile, [refresh_token |-> tokens])
    /\ projectToken' = "valid"
    /\ stdout' = Append(stdout, [success |-> TRUE, data |-> ProjectTokenPath])
    /\ exitCode' = 0
    /\ authPc' = "done"
    /\ UNCHANGED <<promise, settled, timer, server, events, gitignore, tokens,
                   exchanged>>
    /\ AuthFrame

\* fs.writeFile rejects: main's catch calls fail
WriteTokenError ==
    /\ authPc = "writing"
    /\ AuthFail("write")
    /\ UNCHANGED <<promise, settled, timer, server, events, gitignore, tokens,
                   exchanged, tokenFile, projectToken>>
    /\ AuthFrame

AuthNext ==
    \/ AuthLoadCredentials
    \/ AuthPrepare
    \/ AuthPrepareError
    \/ \E code \in CodeParams, error \in ErrorParams : Request(code, error)
    \/ Timeout
    \/ ListenError
    \/ \E refresh \in RefreshTokens : GetToken(refresh)
    \/ GetTokenError
    \/ WriteToken
    \/ WriteTokenError

SpecAuth == AuthInit /\ [][AuthNext]_vars


\* an event that settles a pending promise: the expiry of the timer, or a
\* request with an error or a code
Decisive(e) == e.kind = "timer" \/ Truthy(e.error) \/ Truthy(e.code)

\* the position in events of the first decisive event, 0 when there is none
FirstDecisive ==
    IF \E k \in 1..Len(events) : Decisive(events[k])
      THEN CHOOSE k \in 1..Len(events) :
               Decisive(events[k]) /\ \A j \in 1..(k - 1) : ~Decisive(events[j])
      ELSE 0

\* how an event settles a pending promise; a request with both an error and
\* a code rejects, the handler looks at the error first
Settlement(e) ==
    IF e.kind = "timer" THEN [state |-> "rejected", value |-> Chars("timeout")]
    ELSE IF Truthy(e.error) THEN [state |-> "rejected", value |-> e.error]
    ELSE [state |-> "resolved", value |-> e.code]

\* C28: under every interleaving of callback requests and the timer, the
\* promise is pending exactly while no decisive event has arrived (requests
\* with neither parameter keep it waiting); from the first decisive event on
\* it has the state and value that event gave it (resolved with its code,
\* rejected with its error, rejected with the timeout), whatever arrived
\* later; the code handed to getToken is that one code; and the token file
\* is written at most once, only when the promise resolved and getToken
\* delivered a refresh_token, which is what the file then holds
C28_SettlesOnce ==
    /\ promise = "pending" <=> (FirstDecisive = 0)
    /\ FirstDecisive = 0 => (settled = <<>> /\ exchanged = <<>>)
    /\ FirstDecisive # 0 =>
          LET first == Settlement(events[FirstDecisive])
          IN /\ promise = first.state
             /\ settled[1].value = first.value
             /\ settled[1].call = (IF first.state = "resolved" THEN "resolve" ELSE "reject")
             /\ exchanged = (IF first.state = "resolved" THEN <<first.value>> ELSE <<>>)
             /\ first.state = "rejected" => (authPc = "exited" /\ exitCode = 1)
    /\ tokenFile # <<>> =>
          /\ promise = "resolved"
          /\ Truthy(tokens)
          /\ tokenFile = <<[refresh_token |-> tokens]>>
          /\ authPc = "done"
    /\ (promise # "resolved" \/ ~Truthy(tokens)) => tokenFile = <<>>

\* a request with neither parameter, then a request with the code c1, then,
\* while the token was being exchanged and written, a request with an error
\* and the expiry of the timer: the promise resolved with c1 and the token
\* file was written
C28_Witness ==
    /\ authPc = "done"
    /\ Len(events) = 4
    /\ ~Decisive(events[1])
    /\ events[2].code = Chars("c1") /\ ~Truthy(events[2].error)
    /\ Truthy(events[3].error)
    /\ events[4] = TimerExpiry
    /\ promise = "resolved"
    /\ exchanged = <<Chars("c1")>>
    /\ tokenFile = <<[refresh_token |-> Chars("rt")]>>

=============================================================================
